---- MODULE Spec2Model ----
(***************************************************************************)
(* Model of the commit-message assistant (sonar_jacoco_analyzer).          *)
(*                                                                         *)
(*  - run_local_workflow of commit_cli.py is modelled step by step from    *)
(*    the source (change source selection, staged-change validation,       *)
(*    split analysis, message generation, the approval loop).              *)
(*  - The analysis engine it calls (commit_splitter, git_operations,       *)
(*    conventional_commit) is imported by commit_cli.py but its code is    *)
(*    not part of the sources at hand; it is modelled from the design in   *)
(*    spec.md (sections 4.2 - 4.5).                                        *)
(***************************************************************************)
EXTENDS Integers, Sequences, FiniteSets, TLC

(***************************************************************************)
(* Bounds of the model.                                                    *)
(***************************************************************************)
MaxFiles == 2          \* staged files of a workflow run
MaxSplitFiles == 4     \* files of a changeset handed to the splitter alone
MaxRounds == 2         \* 'edit' and 'regenerate' choices in one approval loop
MaxIndexChanges == 1   \* changes of the index by another process in one run
MaxMeasureFiles == 4   \* largest file count explored for the score
MaxMeasureLines == 3   \* largest line volume explored for the score
MaxDepth == 2          \* directory components of an explored path
MaxStatuses == 3       \* files of one group explored for the type mapper
MaxOver == 1           \* how far explored diff lengths lie from a limit
MaxRepos == 3          \* repositories a client lists
MaxTyped == 2          \* characters typed at a repository prompt
MaxSelection == 3      \* characters typed at the commit selection prompt
MaxEntry == 4          \* characters of a generated history entry
MaxMenus == 3          \* times main shows the main menu
MaxPicked == 4         \* commits selected in a hosting-platform run

(***************************************************************************)
(* Data model (spec.md section 3).                                         *)
(***************************************************************************)
FileStatus == {"A", "M", "D", "R"}

ChangeCategory ==
    {"Source", "Test", "Documentation", "Configuration", "BuildOrCI", "Style", "Other"}

ConventionalCommitType ==
    {"feat", "fix", "docs", "style", "refactor", "perf", "test", "build", "ci",
     "chore", "revert"}

\* A path is kept in parsed form: its directory components, the words of the
\* file stem (split at "_") and the dot-separated segments after the stem
\* (the last one is the extension).  "tests/app_test.py" is
\* [dirs |-> <<"tests">>, stem |-> <<"app", "test">>, exts |-> <<"py">>];
\* ".flake8" is [dirs |-> <<>>, stem |-> <<>>, exts |-> <<"flake8">>].
Path(dirs, stem, exts) == [dirs |-> dirs, stem |-> stem, exts |-> exts]

Last(s) == s[Len(s)]

Range(s) == {s[i] : i \in DOMAIN s}

Min(a, b) == IF a <= b THEN a ELSE b

Extension(p) == IF Len(p.exts) = 0 THEN "" ELSE Last(p.exts)

TopDirectory(p) == IF Len(p.dirs) = 0 THEN "" ELSE p.dirs[1]

(***************************************************************************)
(* Category Classifier (spec.md section 4.3).                              *)
(***************************************************************************)
TestDirs == {"test", "tests", "spec"}
DocRoots == {"docs", "doc"}
DocExts == {"md", "rst", "adoc"}
CIRoots == {".github", ".circleci"}
BuildFiles == {<<"Dockerfile">>, <<"Makefile">>}
BuildManifests == {<<<<"pyproject">>, <<"toml">>>>, <<<<"package">>, <<"json">>>>}
StyleFiles == {<<"flake8">>, <<"eslintrc">>, <<"eslintrc", "json">>, <<"editorconfig">>}
ConfigRoots == {"config"}
ConfigExts == {"yaml", "yml", "json", "toml", "ini"}
SourceExts == {"py", "js", "java", "go"}

\* rule 1: directory named test/tests/spec, or file named *_test.* or *.spec.*
IsTest(p) ==
    \/ \E i \in DOMAIN p.dirs : p.dirs[i] \in TestDirs
    \/ Len(p.stem) >= 2 /\ Last(p.stem) = "test" /\ Len(p.exts) >= 1
    \/ \E i \in DOMAIN p.exts : i < Len(p.exts) /\ p.exts[i] = "spec"

\* rule 2: under a documentation root, or a documentation extension
IsDocumentation(p) ==
    \/ TopDirectory(p) \in DocRoots
    \/ Extension(p) \in DocExts

\* rule 3: CI configuration directory, Dockerfile, build manifest
IsBuildOrCI(p) ==
    \/ TopDirectory(p) \in CIRoots
    \/ Len(p.exts) = 0 /\ p.stem \in BuildFiles
    \/ <<p.stem, p.exts>> \in BuildManifests

\* rule 4: stylistic / lint configuration file (a dot-file such as .flake8)
IsStyle(p) == p.stem = <<>> /\ p.exts \in StyleFiles

\* rule 5: under a configuration root, or a configuration extension
IsConfiguration(p) ==
    \/ TopDirectory(p) \in ConfigRoots
    \/ Extension(p) \in ConfigExts

\* rule 6: recognised source-code extension
IsSource(p) == Extension(p) \in SourceExts

\* The ordered rule list: rule k is <<predicate value, category>>.
RuleOrder ==
    <<"Test", "Documentation", "BuildOrCI", "Style", "Configuration", "Source", "Other">>

RuleOrderShuffled ==
    <<"Source", "Documentation", "Configuration", "Style", "BuildOrCI", "Test", "Other">>

Matches(c, p) ==
    CASE c = "Test" -> IsTest(p)
      [] c = "Documentation" -> IsDocumentation(p)
      [] c = "BuildOrCI" -> IsBuildOrCI(p)
      [] c = "Style" -> IsStyle(p)
      [] c = "Configuration" -> IsConfiguration(p)
      [] c = "Source" -> IsSource(p)
      [] OTHER -> TRUE

\* classify with the rules tried in the given order: the first match decides.
ClassifyBy(order, p) ==
    LET k == CHOOSE i \in DOMAIN order :
                 /\ Matches(order[i], p)
                 /\ \A j \in 1..(i - 1) : ~Matches(order[j], p)
    IN order[k]

ClassifyShuffled(p) == ClassifyBy(RuleOrderShuffled, p)

classify(p) == ClassifyBy(RuleOrder, p)

(***************************************************************************)
(* Conventional Type Mapper (spec.md section 4.4).                         *)
(* statuses is the multiset of the group's file statuses, a function       *)
(* FileStatus -> Nat.  ci: the group lies under a CI-specific root.  fix:  *)
(* the path/diff context carries a fix keyword.  netNew: added lines       *)
(* outnumber deleted lines.                                                *)
(***************************************************************************)
Count(statuses) ==
    statuses["A"] + statuses["M"] + statuses["D"] + statuses["R"]

AllAdded(statuses) == statuses["A"] = Count(statuses)

ModifiedOnly(statuses) == statuses["M"] = Count(statuses)

AddedAndModified(statuses) ==
    /\ statuses["A"] > 0
    /\ statuses["M"] > 0
    /\ statuses["A"] + statuses["M"] = Count(statuses)

DeletedDominant(statuses) == 2 * statuses["D"] > Count(statuses)

\* The Source rows of the table; a status mix the table does not list
\* (renames, a deleted minority) falls back to chore.
SourceType(statuses, fix, netNew) ==
    IF AllAdded(statuses) THEN "feat"
    ELSE IF AddedAndModified(statuses) THEN (IF netNew THEN "feat" ELSE "refactor")
    ELSE IF ModifiedOnly(statuses) THEN (IF fix THEN "fix" ELSE "refactor")
    ELSE "chore"

InferTypeStatusOnly(category, statuses, ci, fix, netNew) ==
    IF AllAdded(statuses) THEN "feat"
    ELSE IF ModifiedOnly(statuses) THEN "refactor"
    ELSE "chore"

infer_type(category, statuses, ci, fix, netNew) ==
    CASE category = "Test" -> "test"
      [] category = "Documentation" -> "docs"
      [] category = "BuildOrCI" -> (IF ci THEN "ci" ELSE "build")
      [] category = "Style" -> "style"
      [] category = "Configuration" -> "chore"
      [] category = "Source" -> SourceType(statuses, fix, netNew)
      [] OTHER -> "chore"

(***************************************************************************)
(* The files a run can meet: a catalogue of FileChange records.  A         *)
(* changeset is a set of catalogue indices; its files are listed in        *)
(* catalogue order (the order of the diff).                                *)
(***************************************************************************)
FileChange(path, status, additions, deletions, fix) ==
    [file_path |-> path, status |-> status, additions |-> additions,
     deletions |-> deletions, fix |-> fix]

Catalogue ==
    << FileChange(Path(<<>>, <<>>, <<"eslintrc">>), "A", 2, 0, FALSE),
       FileChange(Path(<<>>, <<>>, <<"flake8">>), "M", 1, 0, FALSE),
       FileChange(Path(<<".github", "workflows">>, <<"ci">>, <<"yml">>), "M", 1, 1, FALSE),
       FileChange(Path(<<"config">>, <<"settings">>, <<"yml">>), "M", 1, 0, FALSE),
       FileChange(Path(<<"docs">>, <<"guide">>, <<"md">>), "M", 2, 1, FALSE),
       FileChange(Path(<<"src">>, <<"app">>, <<"py">>), "M", 5, 1, FALSE),
       FileChange(Path(<<"tests">>, <<"README">>, <<"md">>), "A", 3, 0, FALSE) >>

FileIds == DOMAIN Catalogue

Changesets == {fs \in SUBSET FileIds : Cardinality(fs) <= MaxFiles}

SplitChangesets == {fs \in SUBSET FileIds : Cardinality(fs) <= MaxSplitFiles}

RECURSIVE SumOver(_, _)
SumOver(fs, field) ==
    IF fs = {} THEN 0
    ELSE LET f == CHOOSE x \in fs : TRUE
         IN Catalogue[f][field] + SumOver(fs \ {f}, field)

CategoryOf(f) == classify(Catalogue[f].file_path)

FilesOf(fs, c) == {f \in fs : CategoryOf(f) = c}

Categories(fs) == {CategoryOf(f) : f \in fs}

Directories(fs) == {TopDirectory(Catalogue[f].file_path) : f \in fs}

StatusesOf(fs) ==
    [s \in FileStatus |-> Cardinality({f \in fs : Catalogue[f].status = s})]

(***************************************************************************)
(* Change Metrics Calculator (spec.md section 4.2).  The score is kept in  *)
(* tenths so that the line-volume factor (smaller than the per-file        *)
(* weight) stays an integer.                                               *)
(***************************************************************************)
FileWeight == 10
LineWeight == 1
DirectoryWeight == 5
CategoryWeight == 5

ScorePerFile(files, lines, dirs, cats) ==
    IF files = 0 THEN 0
    ELSE (FileWeight * files + LineWeight * lines + DirectoryWeight * dirs
             + CategoryWeight * cats) \div files

complexity_score(files, lines, dirs, cats) ==
    FileWeight * files + LineWeight * lines + DirectoryWeight * dirs + CategoryWeight * cats

ChangeMetrics(fs) ==
    [total_files |-> Cardinality(fs),
     directories_affected |-> Cardinality(Directories(fs)),
     complexity_score |->
         complexity_score(Cardinality(fs),
                          SumOver(fs, "additions") + SumOver(fs, "deletions"),
                          Cardinality(Directories(fs)),
                          Cardinality(Categories(fs)))]

StagedChanges(fs) ==
    [files |-> fs,
     diff_content |-> fs,
     total_additions |-> SumOver(fs, "additions"),
     total_deletions |-> SumOver(fs, "deletions")]

(***************************************************************************)
(* Commit Splitter (spec.md section 4.5).                                  *)
(***************************************************************************)
MinGroupSize == 2

\* step 3: the compatible group of a category, "none" when it has none
CompatibleWith(c) ==
    CASE c = "Style" -> "Source"
      [] c = "Configuration" -> "BuildOrCI"
      [] OTHER -> "none"

\* step 4: the application order of the groups
GroupOrderByName ==
    <<"BuildOrCI", "Configuration", "Documentation", "Other", "Source", "Style", "Test">>

GroupOrder ==
    <<"Configuration", "BuildOrCI", "Source", "Test", "Style", "Documentation", "Other">>

\* a preliminary group is merged away when it is undersized and its
\* compatible group exists
MergesNever(fs, c) == FALSE

Merges(fs, c) ==
    /\ FilesOf(fs, c) # {}
    /\ Cardinality(FilesOf(fs, c)) < MinGroupSize
    /\ CompatibleWith(c) # "none"
    /\ FilesOf(fs, CompatibleWith(c)) # {}

\* the files of the final group of category c (empty: no such group)
GroupFilesDropping(fs, c) ==
    IF Merges(fs, c) THEN {} ELSE FilesOf(fs, c)

GroupFiles(fs, c) ==
    IF Merges(fs, c) THEN {}
    ELSE FilesOf(fs, c) \cup
         UNION {FilesOf(fs, d) : d \in {x \in ChangeCategory :
                                           CompatibleWith(x) = c /\ Merges(fs, x)}}

SplitGroup(fs, c) ==
    LET files == GroupFiles(fs, c)
    IN [name |-> c,
        category |-> c,
        files |-> files,
        total_additions |-> SumOver(files, "additions"),
        total_deletions |-> SumOver(files, "deletions"),
        suggested_type |->
            infer_type(c, StatusesOf(files),
                       \A f \in files : TopDirectory(Catalogue[f].file_path) \in CIRoots,
                       \E f \in files : Catalogue[f].fix,
                       SumOver(files, "additions") > SumOver(files, "deletions"))]

RECURSIVE GroupsIn(_, _, _)
GroupsIn(fs, order, i) ==
    IF i > Len(order) THEN <<>>
    ELSE IF GroupFiles(fs, order[i]) = {} THEN GroupsIn(fs, order, i + 1)
    ELSE <<SplitGroup(fs, order[i])>> \o GroupsIn(fs, order, i + 1)

ShouldSplit(metrics, max_commit_size, complexity_threshold) ==
    \/ metrics.total_files > max_commit_size
    \/ metrics.complexity_score > complexity_threshold

\* analyze: an empty changeset is an error; otherwise the proposal
analyze(staged_changes, metrics, max_commit_size, complexity_threshold) ==
    IF staged_changes.files = {} THEN [error |-> "empty changes"]
    ELSE IF ShouldSplit(metrics, max_commit_size, complexity_threshold)
    THEN [should_split |-> TRUE,
          groups |-> GroupsIn(staged_changes.files, GroupOrder, 1)]
    ELSE [should_split |-> FALSE, groups |-> <<>>]

IsError(r) == "error" \in DOMAIN r

(***************************************************************************)
(* State.                                                                  *)
(***************************************************************************)
VARIABLES
    pc,                 \* position of the process in run_local_workflow
    config,             \* CommitConfig: max_commit_size, complexity_threshold
    index,              \* the repository's staged files (the git index)
    index_changes,      \* changes another process made to the index
    change_source,      \* result of select_change_source
    ref_diff,           \* diff_content of the last-commit/unstaged/all paths
    staged,             \* git_ops.get_staged_changes()
    metrics,            \* git_ops.analyze_change_complexity()
    analyzed,           \* splitter.analyze has returned
    proposal,           \* its SplitProposal
    asked_split,        \* display_split_proposal was called
    groups_to_process,
    commit,             \* the GeneratedCommit under review
    preview,            \* message of the last display_commit_preview
    choice,             \* last result of request_user_approval
    feedback,           \* last answer to the feedback prompt
    requests,           \* number of calls of the text-generation collaborator
    request,            \* the last of them
    messages,           \* number of messages the collaborator returned
    created,            \* arguments of git_ops.create_commit
    report,             \* what was reported last to the user
    rounds,             \* 'edit' and 'regenerate' choices so far
    path,               \* classifier under test: its input
    category,           \*   and result
    group,              \* type mapper under test: its input
    type,               \*   and result
    measure,            \* metrics calculator under test: its input
    score,              \*   and result
    env,                \* main: the thresholds set in the environment
    job,                \* a generation run: program, provider, diff source, ...
    jpc,                \*   its position
    jdiff,              \*   the diff it obtained
    truncated,          \*   whether the diff was cut
    asked,              \*   diffs handed to the generator function
    sent,               \*   diffs that reached the provider
    reply,              \*   what the provider answered last
    outcome,            \*   how the run ended: returned, raised or exited
    prompt,             \* an interactive selection: the function that runs
    ppc,                \*   its position
    fetched,            \*   the list the client returned
    matches,            \*   the repositories a search matched
    typed,              \*   the last answer typed at a prompt
    returned,           \*   what the function returned or raised
    argv,               \* main: sys.argv[1], "" when there is none
    mpc,                \*   its position
    exit_status,        \*   how the process ended: return, exit 0 or exit 1
    events,             \*   what main did, in order
    available,          \*   providers display_ai_credits found available
    selected_provider,  \*   what display_ai_credits returned last, if a key
    generator_provider, \*   the provider CommitGenerator(config) uses
    used,               \*   the provider that generated the message
    script,             \* a hosting-platform run: what the platform and the user answer
    github,             \*   what run_github_workflow did with it
    gitlab              \*   what run_gitlab_workflow did with it

workflowVars ==
    <<pc, config, index, index_changes, change_source, ref_diff, staged, metrics,
      analyzed, proposal, asked_split, groups_to_process, commit, preview, choice,
      feedback, requests, request, messages, created, report, rounds>>

classifierVars == <<path, category>>

mapperVars == <<group, type>>

metricsVars == <<measure, score>>

mainVars == <<env>>

sessionVars ==
    <<argv, mpc, exit_status, events, available, selected_provider,
      generator_provider, used>>

remoteVars == <<script, github, gitlab>>

jobVars == <<job, jpc, jdiff, truncated, asked, sent, reply, outcome>>

promptVars == <<prompt, ppc, fetched, matches, typed, returned>>

vars ==
    <<workflowVars, classifierVars, mapperVars, metricsVars, mainVars,
      sessionVars, remoteVars, jobVars,
      promptVars>>

(***************************************************************************)
(* Values.                                                                 *)
(***************************************************************************)
NoMessage == [by |-> "none", n |-> 0]

AIMessage(n) == [by |-> "ai", n |-> n]

UserText(n) == [by |-> "user", n |-> n]

GeneratedCommit(message) == [formatted_message |-> message]

NoProposal == [should_split |-> FALSE, groups |-> <<>>]

Request(fn, diff, files, previous, fb, groups) ==
    [fn |-> fn, diff_content |-> diff, file_paths |-> files,
     previous |-> previous, feedback |-> fb, groups |-> groups]

NoRequest == Request("none", {}, {}, NoMessage, "", <<>>)

MaxCommitSizes == {1, 2}

ComplexityThresholds == {25, 1000}

Configs ==
    [max_commit_size : MaxCommitSizes, complexity_threshold : ComplexityThresholds]

\* what `git diff` can return on the reference-only paths
RefDiffs == {{}, {6}, {5, 6}}

Feedbacks == {"", "shorter"}

IdleClassifier == path = Path(<<>>, <<>>, <<>>) /\ category = "none"

IdleMapper ==
    /\ group = [category |-> "Other", statuses |-> [s \in FileStatus |-> 0],
                ci |-> FALSE, fix |-> FALSE, netNew |-> FALSE]
    /\ type = "none"

IdleMetrics ==
    /\ measure = [files |-> 0, lines |-> 0, dirs |-> 0, cats |-> 0]
    /\ score = 0

\* the configuration as main hands it to a workflow
IdleMain == env = config

\* a text by its length and the position of its first character that is
\* not whitespace (0: there is none)
Text(len, ink) == [len |-> len, ink |-> ink]

NoText == Text(0, 0)

NoOutcome == [kind |-> "none", success |-> FALSE, message |-> ""]

NoJob ==
    [program |-> "none", provider |-> "openai", diff_source |-> "commit",
     commit_id |-> "", api_key |-> FALSE]

IdleJob ==
    /\ job = NoJob
    /\ jpc = "idle"
    /\ jdiff = NoText
    /\ truncated = FALSE
    /\ asked = <<>>
    /\ sent = <<>>
    /\ reply = "none"
    /\ outcome = NoOutcome

NoResult == [kind |-> "none", value |-> <<>>]

IdlePrompt ==
    /\ prompt = "none"
    /\ ppc = "idle"
    /\ fetched = <<>>
    /\ matches = <<>>
    /\ typed = <<>>
    /\ returned = NoResult

IdleSession ==
    /\ argv = ""
    /\ mpc = "idle"
    /\ exit_status = "none"
    /\ events = <<>>
    /\ available = {}
    /\ selected_provider = "none"
    /\ generator_provider = "none"
    /\ used = "none"

\* no script and no run
NoScript ==
    [config_valid |-> FALSE, client |-> "none", repo |-> "none", branch |-> "none",
     commits |-> <<>>, diffs |-> "none", generator |-> "none", generation |-> "none"]

NotRun == [steps |-> <<>>, ended |-> "none", requests |-> <<>>, preview |-> <<>>]

IdleRemote ==
    /\ script = NoScript
    /\ github = NotRun
    /\ gitlab = NotRun

\* the parts of the state a specification does not use
IdleExcept(part) ==
    /\ part = "main" \/ IdleMain
    /\ part = "session" \/ IdleSession
    /\ part = "remote" \/ IdleRemote
    /\ part = "job" \/ IdleJob
    /\ part = "prompt" \/ IdlePrompt

IdleWorkflow ==
    /\ pc = "idle"
    /\ config = [max_commit_size |-> 3, complexity_threshold |-> 1000]
    /\ index = {}
    /\ index_changes = 0
    /\ change_source = "none"
    /\ ref_diff = {}
    /\ staged = StagedChanges({})
    /\ metrics = ChangeMetrics({})
    /\ analyzed = FALSE
    /\ proposal = NoProposal
    /\ asked_split = FALSE
    /\ groups_to_process = <<>>
    /\ commit = GeneratedCommit(NoMessage)
    /\ preview = NoMessage
    /\ choice = "none"
    /\ feedback = ""
    /\ requests = 0
    /\ request = NoRequest
    /\ messages = 0
    /\ created = <<>>
    /\ report = "none"
    /\ rounds = 0

(***************************************************************************)
(* run_local_workflow.                                                     *)
(***************************************************************************)
Init ==
    /\ pc = "select_source"
    /\ config \in Configs
    /\ index \in Changesets
    /\ index_changes = 0
    /\ change_source = "none"
    /\ ref_diff = {}
    /\ staged = StagedChanges({})
    /\ metrics = ChangeMetrics({})
    /\ analyzed = FALSE
    /\ proposal = NoProposal
    /\ asked_split = FALSE
    /\ groups_to_process = <<>>
    /\ commit = GeneratedCommit(NoMessage)
    /\ preview = NoMessage
    /\ choice = "none"
    /\ feedback = ""
    /\ requests = 0
    /\ request = NoRequest
    /\ messages = 0
    /\ created = <<>>
    /\ report = "none"
    /\ rounds = 0
    /\ IdleClassifier
    /\ IdleMapper
    /\ IdleMetrics
    /\ IdleExcept("none")

others == <<classifierVars, mapperVars, metricsVars, mainVars, sessionVars,
            remoteVars, jobVars, promptVars>>

\* select_change_source: EOF or interrupt at the prompt defaults to "staged"
SelectChangeSource ==
    /\ pc = "select_source"
    /\ \E source \in {"last_commit", "staged", "unstaged", "all"} :
          /\ change_source' = source
          /\ pc' = IF source = "staged" THEN "validate" ELSE "ref_diff"
    /\ UNCHANGED <<config, index, index_changes, ref_diff, staged, metrics, analyzed,
                   proposal, asked_split, groups_to_process, commit, preview, choice, feedback,
                   requests, request, messages, created, report, rounds, others>>

\* the git diff of the last-commit, unstaged and all-changes paths
RefGetDiff ==
    /\ pc = "ref_diff"
    /\ \/ /\ report' = "error"                \* git failed or timed out
          /\ pc' = "done"
          /\ UNCHANGED ref_diff
       \/ \E diff \in RefDiffs :
             IF diff = {}
             THEN /\ report' = "error"        \* "No changes found"
                  /\ pc' = "done"
                  /\ UNCHANGED ref_diff
             ELSE /\ ref_diff' = diff
                  /\ pc' = "ref_generate"
                  /\ UNCHANGED report
    /\ UNCHANGED <<config, index, index_changes, change_source, staged, metrics,
                   analyzed, proposal, asked_split, groups_to_process, commit, preview,
                   choice, feedback, requests, request, messages, created, rounds, others>>

\* after display_commit_preview the reference branches `return`
AfterReferencePreview == "preview"

AfterReference == "done"

\* CommitGenerator(config), generate_commit_message, display_commit_preview
RefGenerate ==
    /\ pc = "ref_generate"
    /\ pc' = AfterReference
    /\ \/ /\ report' = "error"                \* CommitGenerator(config) failed
          /\ UNCHANGED <<requests, request, messages, commit, preview>>
       \/ /\ requests' = requests + 1
          /\ request' = Request("generate_commit_message", ref_diff, ref_diff,
                                NoMessage, "", <<>>)
          /\ \/ /\ report' = "error"          \* CommitGeneratorError
                /\ UNCHANGED <<messages, commit, preview>>
             \/ /\ commit' = GeneratedCommit(AIMessage(requests + 1))
                /\ messages' = messages + 1
                /\ preview' = AIMessage(requests + 1)
                /\ report' = "reference"
    /\ UNCHANGED <<config, index, index_changes, change_source, ref_diff, staged,
                   metrics, analyzed, proposal, asked_split, groups_to_process, choice, feedback,
                   created, rounds, others>>

\* NoStagedChangesError: show_error, the uncommitted files are listed, `return`
AfterNoStagedChangesContinue == "get_staged"

AfterNoStagedChanges == "done"

\* git_ops.validate_staged_changes()
ValidateStagedChanges ==
    /\ pc = "validate"
    /\ IF index = {}
       THEN /\ report' = "error"              \* NoStagedChangesError
            /\ pc' = AfterNoStagedChanges
       ELSE /\ pc' = "get_staged"
            /\ UNCHANGED report
    /\ UNCHANGED <<config, index, index_changes, change_source, ref_diff, staged,
                   metrics, analyzed, proposal, asked_split, groups_to_process, commit,
                   preview, choice, feedback, requests, request, messages, created, rounds, others>>

\* staged = git_ops.get_staged_changes()
GetStagedChanges ==
    /\ pc = "get_staged"
    /\ staged' = StagedChanges(index)
    /\ pc' = "metrics"
    /\ UNCHANGED <<config, index, index_changes, change_source, ref_diff, metrics,
                   analyzed, proposal, asked_split, groups_to_process, commit, preview,
                   choice, feedback, requests, request, messages, created, report, rounds, others>>

\* metrics = git_ops.analyze_change_complexity(): a second reading of the index
AnalyzeChangeComplexity ==
    /\ pc = "metrics"
    /\ metrics' = ChangeMetrics(index)
    /\ pc' = "analyze"
    /\ UNCHANGED <<config, index, index_changes, change_source, ref_diff, staged,
                   analyzed, proposal, asked_split, groups_to_process, commit, preview,
                   choice, feedback, requests, request, messages, created, report, rounds, others>>

\* CommitSplitter(max_commit_size=config.max_commit_size,
\*                complexity_threshold=config.complexity_threshold)
SplitterDefaults(cfg) == [max_commit_size |-> 10, complexity_threshold |-> 1000]

CommitSplitter(cfg) ==
    [max_commit_size |-> cfg.max_commit_size,
     complexity_threshold |-> cfg.complexity_threshold]

\* `if proposal.should_split:` guards display_split_proposal
AsksAlways(p) == TRUE

AsksSplit(p) == p.should_split

\* proposal = splitter.analyze(staged, metrics); groups_to_process = []
AnalyzeSplit ==
    /\ pc = "analyze"
    /\ LET splitter == CommitSplitter(config)
           result == analyze(staged, metrics, splitter.max_commit_size,
                             splitter.complexity_threshold)
       IN IF IsError(result)
          THEN /\ pc' = "raised"
               /\ UNCHANGED <<proposal, analyzed>>
          ELSE /\ proposal' = result
               /\ analyzed' = TRUE
               /\ pc' = IF AsksSplit(result) THEN "ask_split" ELSE "init_generator"
    /\ groups_to_process' = <<>>
    /\ UNCHANGED <<config, index, index_changes, change_source, ref_diff, staged,
                   metrics, asked_split, commit, preview, choice, feedback, requests, request, messages, created,
                   report, rounds, others>>

\* display_split_proposal: Confirm.ask; EOF or interrupt answers False
DisplaySplitProposal ==
    /\ pc = "ask_split"
    /\ asked_split' = TRUE
    /\ \E answer \in BOOLEAN :
          groups_to_process' = IF answer THEN proposal.groups ELSE <<>>
    /\ pc' = "init_generator"
    /\ UNCHANGED <<config, index, index_changes, change_source, ref_diff, staged,
                   metrics, analyzed, proposal, commit, preview, choice, feedback, requests, request, messages,
                   created, report, rounds, others>>

\* generator = CommitGenerator(config)
InitGenerator ==
    /\ pc = "init_generator"
    /\ \/ /\ report' = "error"                \* CommitGeneratorError
          /\ pc' = "done"
       \/ /\ pc' = IF groups_to_process # <<>> THEN "generate_split"
                   ELSE "generate_single"
          /\ UNCHANGED report
    /\ UNCHANGED <<config, index, index_changes, change_source, ref_diff, staged,
                   metrics, analyzed, proposal, asked_split, groups_to_process, commit,
                   preview, choice, feedback, requests, request, messages, created, rounds, others>>

\* commits = generator.generate_split_commits(groups_to_process), then one
\* display_commit_preview per group; an error of the call is not caught
GenerateSplitCommits ==
    /\ pc = "generate_split"
    /\ requests' = requests + 1
    /\ request' =
           Request("generate_split_commits", {}, {}, NoMessage, "", groups_to_process)
    /\ \/ /\ pc' = "raised"
          /\ UNCHANGED <<messages, preview, report>>
       \/ /\ messages' = messages + Len(groups_to_process)
          /\ preview' = AIMessage(requests + 1)
          /\ report' = "manual"
          /\ pc' = "done"
    /\ UNCHANGED <<config, index, index_changes, change_source, ref_diff, staged,
                   metrics, analyzed, proposal, asked_split, groups_to_process, commit,
                   choice, feedback, created, rounds, others>>

\* file_paths = [f.file_path for f in staged.files]
FilePaths(s) == s.files

\* show_error("Failed to generate commit message: ..."), `return`
AfterGenerationErrorRetry == "generate_single"

AfterGenerationError == "done"

\* commit = generator.generate_commit_message(staged.diff_content, file_paths)
GenerateSingle ==
    /\ pc = "generate_single"
    /\ requests' = requests + 1
    /\ request' =
           Request("generate_commit_message", staged.diff_content, FilePaths(staged),
                   NoMessage, "", <<>>)
    /\ \/ /\ report' = "error"                \* CommitGeneratorError
          /\ pc' = AfterGenerationError
          /\ UNCHANGED <<messages, commit>>
       \/ /\ commit' = GeneratedCommit(AIMessage(requests + 1))
          /\ messages' = messages + 1
          /\ pc' = "preview"
          /\ UNCHANGED report
    /\ UNCHANGED <<config, index, index_changes, change_source, ref_diff, staged,
                   metrics, analyzed, proposal, asked_split, groups_to_process, preview,
                   choice, feedback, created, rounds, others>>

\* display_commit_preview(commit, diff_summary); choice = request_user_approval()
\* (EOF or interrupt at the prompt is "cancel")
RequestUserApproval ==
    /\ pc = "preview"
    /\ preview' = commit.formatted_message
    /\ \E c \in {"approve", "edit", "regenerate", "cancel"} :
          /\ c \in {"edit", "regenerate"} => rounds < MaxRounds
          /\ choice' = c
    /\ pc' = "chosen"
    /\ UNCHANGED <<config, index, index_changes, change_source, ref_diff, staged,
                   metrics, analyzed, proposal, asked_split, groups_to_process, commit,
                   requests, request, messages, created, report, rounds, feedback, others>>

\* the loop is left after create_commit (`break`)
AfterApproveContinue == "preview"

AfterApprove == "done"

\* result = git_ops.create_commit(commit.formatted_message)
Approve ==
    /\ pc = "chosen"
    /\ choice = "approve"
    /\ created' = Append(created, commit.formatted_message)
    /\ \E success \in BOOLEAN :
          report' = IF success THEN "commit" ELSE "error"
    /\ pc' = AfterApprove
    /\ UNCHANGED <<config, index, index_changes, change_source, ref_diff, staged,
                   metrics, analyzed, proposal, asked_split, groups_to_process, commit,
                   preview, choice, feedback, requests, request, messages, rounds, others>>

\* edit_commit_message: the typed lines, or the original when nothing was
\* typed or the input ended
edit_commit_message(original, lines) ==
    IF lines # NoMessage THEN lines ELSE original

\* edited = edit_commit_message(...); commit.formatted_message = edited
Edit ==
    /\ pc = "chosen"
    /\ choice = "edit"
    /\ \E lines \in {NoMessage, UserText(rounds + 1)} :
          commit' = [commit EXCEPT !.formatted_message =
                        edit_commit_message(commit.formatted_message, lines)]
    /\ rounds' = rounds + 1
    /\ pc' = "preview"
    /\ UNCHANGED <<config, index, index_changes, change_source, ref_diff, staged,
                   metrics, analyzed, proposal, asked_split, groups_to_process, preview,
                   choice, feedback, requests, request, messages, created, report, others>>

\* the request of a regeneration: with feedback the message under review and
\* the feedback go along, without feedback it is a plain generation
RegenerationRequestFromIndex(current, fb, s, file_paths) ==
    IF fb # ""
    THEN Request("regenerate_with_feedback", index, index,
                 current.formatted_message, fb, <<>>)
    ELSE Request("generate_commit_message", index, index, NoMessage, "", <<>>)

RegenerationRequest(current, fb, s, file_paths) ==
    IF fb # ""
    THEN Request("regenerate_with_feedback", s.diff_content, file_paths,
                 current.formatted_message, fb, <<>>)
    ELSE Request("generate_commit_message", s.diff_content, file_paths,
                 NoMessage, "", <<>>)

\* except CommitGeneratorError: show_error(...), continue; the assignment to
\* commit did not happen
AfterRegenerationErrorCleared(current) == GeneratedCommit(NoMessage)

AfterRegenerationError(current) == current

\* feedback = Prompt.ask(...), then the collaborator is called again; a
\* CommitGeneratorError leaves commit as it is; EOF or interrupt at the
\* feedback prompt is not caught
Regenerate ==
    /\ pc = "chosen"
    /\ choice = "regenerate"
    /\ rounds' = rounds + 1
    /\ \/ /\ pc' = "raised"
          /\ UNCHANGED <<feedback, requests, request, messages, commit, report>>
       \/ /\ feedback' \in Feedbacks
          /\ requests' = requests + 1
          /\ request' =
                 RegenerationRequest(commit, feedback', staged, FilePaths(staged))
          /\ pc' = "preview"
          /\ \/ /\ report' = "error"          \* CommitGeneratorError
                /\ commit' = AfterRegenerationError(commit)
                /\ UNCHANGED messages
             \/ /\ commit' = GeneratedCommit(AIMessage(requests + 1))
                /\ messages' = messages + 1
                /\ UNCHANGED report
    /\ UNCHANGED <<config, index, index_changes, change_source, ref_diff, staged,
                   metrics, analyzed, proposal, asked_split, groups_to_process, preview,
                   choice, created, others>>

Cancel ==
    /\ pc = "chosen"
    /\ choice = "cancel"
    /\ report' = "cancelled"
    /\ pc' = "done"
    /\ UNCHANGED <<config, index, index_changes, change_source, ref_diff, staged,
                   metrics, analyzed, proposal, asked_split, groups_to_process, commit,
                   preview, choice, feedback, requests, request, messages, created, rounds, others>>

\* Another process stages or unstages one file between the workflow's readings
\* of the index (validate_staged_changes, get_staged_changes,
\* analyze_change_complexity); a change before the first reading is an
\* initial state, one after the last reading is never read
ChangeIndex ==
    /\ pc \in {"get_staged", "metrics"}
    /\ index_changes < MaxIndexChanges
    /\ \E f \in FileIds :
          /\ index' = IF f \in index THEN index \ {f} ELSE index \cup {f}
          /\ index' \in Changesets
    /\ index_changes' = index_changes + 1
    /\ UNCHANGED <<pc, config, change_source, ref_diff, staged, metrics, analyzed,
                   proposal, asked_split, groups_to_process, commit, preview, choice, feedback,
                   requests, request, messages, created, report, rounds, others>>

Next ==
    \/ SelectChangeSource
    \/ RefGetDiff
    \/ RefGenerate
    \/ ValidateStagedChanges
    \/ GetStagedChanges
    \/ AnalyzeChangeComplexity
    \/ AnalyzeSplit
    \/ DisplaySplitProposal
    \/ InitGenerator
    \/ GenerateSplitCommits
    \/ GenerateSingle
    \/ RequestUserApproval
    \/ Approve
    \/ Edit
    \/ Regenerate
    \/ Cancel
    \/ ChangeIndex

Spec == Init /\ [][Next]_vars

(***************************************************************************)
(* main: the configuration is loaded and checked, then the menu starts a   *)
(* workflow.                                                               *)
(***************************************************************************)
EnvCommitSizes == {-1} \cup MaxCommitSizes

EnvThresholds == {-1} \cup ComplexityThresholds

EnvConfigs ==
    [max_commit_size : EnvCommitSizes, complexity_threshold : EnvThresholds]

\* the thresholds CommitConfig.from_env accepts
ValidThresholds(e) == e.max_commit_size >= 0 /\ e.complexity_threshold >= 0

NoConfig == [max_commit_size |-> 0, complexity_threshold |-> 0]

\* the staged files of the runs started from main
MainIndexes == {s \in Changesets : s \subseteq {5, 6}}

InitMain ==
    /\ pc = "load_config"
    /\ env \in EnvConfigs
    /\ config = NoConfig
    /\ index \in MainIndexes
    /\ index_changes = 0
    /\ change_source = "none"
    /\ ref_diff = {}
    /\ staged = StagedChanges({})
    /\ metrics = ChangeMetrics({})
    /\ analyzed = FALSE
    /\ proposal = NoProposal
    /\ asked_split = FALSE
    /\ groups_to_process = <<>>
    /\ commit = GeneratedCommit(NoMessage)
    /\ preview = NoMessage
    /\ choice = "none"
    /\ feedback = ""
    /\ requests = 0
    /\ request = NoRequest
    /\ messages = 0
    /\ created = <<>>
    /\ report = "none"
    /\ rounds = 0
    /\ IdleClassifier
    /\ IdleMapper
    /\ IdleMetrics
    /\ IdleExcept("main")

mainRest ==
    <<index, index_changes, change_source, ref_diff, staged, metrics, analyzed,
      proposal, asked_split, groups_to_process, commit, preview, choice, feedback,
      requests, request, messages, created, rounds, classifierVars, mapperVars,
      metricsVars, mainVars, sessionVars, remoteVars, jobVars, promptVars>>

\* show_error("Failed to load configuration: ..."), sys.exit(1)
AfterConfigurationErrorContinue == "validate_openai"

AfterConfigurationError == "exit"

\* config = CommitConfig.from_env(); any exception ends the program
LoadConfiguration ==
    /\ pc = "load_config"
    /\ \E raises \in BOOLEAN :
          IF raises \/ ~ValidThresholds(env)
          THEN /\ report' = "config_error"
               /\ pc' = AfterConfigurationError
               /\ UNCHANGED config
          ELSE /\ config' = env
               /\ pc' = "validate_openai"
               /\ UNCHANGED report
    /\ UNCHANGED mainRest

\* is_valid, errors = config.validate_openai(); quick mode leaves main for
\* run_quick_commit, which has no splitter
ValidateOpenAI ==
    /\ pc = "validate_openai"
    /\ \E is_valid \in BOOLEAN, quick_mode \in BOOLEAN :
          IF ~is_valid
          THEN /\ report' = "config_error"
               /\ pc' = "exit"
          ELSE /\ pc' = IF quick_mode THEN "other_workflow" ELSE "menu"
               /\ UNCHANGED report
    /\ UNCHANGED <<config, mainRest>>

\* choice = show_main_menu(); EOF or interrupt is sys.exit(0); the GitHub and
\* GitLab workflows have no splitter; run_ai_config_workflow may come back
\* to the menu
ShowMainMenu ==
    /\ pc = "menu"
    /\ \E c \in {"local", "github", "gitlab", "ai_config", "eof"},
          should_return \in BOOLEAN :
          pc' = CASE c = "local" -> "select_source"
                  [] c = "eof" -> "exit"
                  [] c = "ai_config" -> IF should_return THEN "menu" ELSE "exit"
                  [] OTHER -> "other_workflow"
    /\ UNCHANGED <<config, report, mainRest>>

NextMain ==
    \/ LoadConfiguration
    \/ ValidateOpenAI
    \/ ShowMainMenu
    \/ Next

SpecMain == InitMain /\ [][NextMain]_vars

(***************************************************************************)
(* main, step by step: the arguments, the configuration, the menu loop and *)
(* the AI configuration workflow.                                          *)
(***************************************************************************)
\* sys.argv[1] as typed; "" when there is no argument
Args == {"", "--quick", "-q", "-Q", "--help", "-h", "--HELP", "--verbose"}

\* sys.argv[1].lower()
ArgLower(arg) ==
    CASE arg = "-Q" -> "-q"
      [] arg = "--HELP" -> "--help"
      [] OTHER -> arg

\* the keys of the providers list of display_ai_credits, in its order
AIProviders == <<"openai", "anthropic", "deepseek">>

AIProviderKeys == {AIProviders[i] : i \in DOMAIN AIProviders}

\* str(i + 1) of the position of a provider in the list
ChoiceOf(i) == <<"1", "2", "3">>[i]

\* available_choices
AvailableChoices(keys) ==
    {ChoiceOf(i) : i \in {k \in DOMAIN AIProviders : AIProviders[k] \in keys}}

\* the provider CommitGenerator(config) generates with: fixed by the
\* configuration loaded from the environment
GeneratorProviders == AIProviderKeys

\* the number of times an event happened
Happened(log, e) == Cardinality({i \in DOMAIN log : log[i] = e})

InitSession ==
    /\ IdleWorkflow
    /\ IdleClassifier
    /\ IdleMapper
    /\ IdleMetrics
    /\ IdleExcept("session")
    /\ argv \in Args
    /\ mpc = "start"
    /\ exit_status = "none"
    /\ events = <<>>
    /\ available \in SUBSET AIProviderKeys
    /\ selected_provider = "none"
    /\ generator_provider = "none"
    /\ used = "none"

sessionRest ==
    <<workflowVars, classifierVars, mapperVars, metricsVars, mainVars, remoteVars,
      jobVars, promptVars, argv, available>>

\* if len(sys.argv) > 1: --quick/-q sets quick_mode, --help/-h prints the
\* help and returns
ParseArguments ==
    /\ mpc = "start"
    /\ IF argv # "" /\ ArgLower(argv) \in {"--help", "-h"}
       THEN /\ events' = Append(events, "help")
            /\ exit_status' = "return"
            /\ mpc' = "done"
       ELSE /\ mpc' = "load_config"
            /\ UNCHANGED <<events, exit_status>>
    /\ UNCHANGED <<selected_provider, generator_provider, used, sessionRest>>

\* config = CommitConfig.from_env(); an exception is sys.exit(1)
LoadSessionConfiguration ==
    /\ mpc = "load_config"
    /\ \E raises \in BOOLEAN, p \in GeneratorProviders :
          IF raises
          THEN /\ events' = events \o <<"load_config", "config_error">>
               /\ exit_status' = "exit 1"
               /\ mpc' = "done"
               /\ UNCHANGED generator_provider
          ELSE /\ events' = Append(events, "load_config")
               /\ generator_provider' = p
               /\ mpc' = "validate_openai"
               /\ UNCHANGED exit_status
    /\ UNCHANGED <<selected_provider, used, sessionRest>>

\* sys.exit(1) after the errors of validate_openai are shown
AfterInvalidOpenAIContinue == "menu"

AfterInvalidOpenAI == "done"

\* is_valid, errors = config.validate_openai(); then quick mode or the menu
ValidateSessionOpenAI ==
    /\ mpc = "validate_openai"
    /\ \E is_valid \in BOOLEAN :
          IF ~is_valid
          THEN /\ events' = events \o <<"validate_openai", "openai_error">>
               /\ exit_status' = "exit 1"
               /\ mpc' = AfterInvalidOpenAI
          ELSE /\ events' = Append(events, "validate_openai")
               /\ mpc' = IF ArgLower(argv) \in {"--quick", "-q"}
                         THEN "quick" ELSE "menu"
               /\ UNCHANGED exit_status
    /\ UNCHANGED <<selected_provider, generator_provider, used, sessionRest>>

\* success = run_quick_commit(config); sys.exit(0 if success else 1)
QuickCommit ==
    /\ mpc = "quick"
    /\ events' = Append(events, "quick")
    /\ \E generated \in BOOLEAN, success \in BOOLEAN :
          /\ success => generated
          /\ used' = IF generated THEN generator_provider ELSE "none"
          /\ exit_status' = IF success THEN "exit 0" ELSE "exit 1"
    /\ mpc' = "done"
    /\ UNCHANGED <<selected_provider, generator_provider, sessionRest>>

\* choice = show_main_menu(); EOF or interrupt at the prompt is sys.exit(0)
MainMenu ==
    /\ mpc = "menu"
    /\ Happened(events, "menu") < MaxMenus
    /\ events' = Append(events, "menu")
    /\ \E c \in {"local", "github", "gitlab", "ai_config", "eof"} :
          IF c = "eof"
          THEN /\ exit_status' = "exit 0"
               /\ mpc' = "done"
          ELSE /\ mpc' = c
               /\ UNCHANGED exit_status
    /\ UNCHANGED <<selected_provider, generator_provider, used, sessionRest>>

\* break: the loop of main ends after a repository workflow
AfterWorkflowLoop == "menu"

AfterWorkflow == "done"

Workflows == {"local", "github", "gitlab"}

\* run_local_workflow(config), run_github_workflow(config) or
\* run_gitlab_workflow(config): generator = CommitGenerator(config), if the
\* workflow gets that far; an exception ends the process with status 1
RunWorkflow ==
    /\ mpc \in Workflows
    /\ events' = Append(events, mpc)
    /\ \E ends \in {"generated", "stopped", "raised"} :
          /\ used' = IF ends = "generated" THEN generator_provider ELSE used
          /\ exit_status' = IF ends = "raised" THEN "exit 1" ELSE "return"
    /\ mpc' = AfterWorkflow
    /\ UNCHANGED <<selected_provider, generator_provider, sessionRest>>

\* selected_provider = display_ai_credits(config): the key of an available
\* provider, or None for 'q', EOF, interrupt or no available provider; the
\* key is printed and dropped
DisplayAICredits ==
    /\ mpc = "ai_config"
    /\ events' = Append(events, "ai_config")
    /\ IF available = {}
       THEN selected_provider' = "none"
       ELSE \E c \in AvailableChoices(available) \cup {"q", "eof"} :
               selected_provider' =
                   IF c \in {"q", "eof"} THEN "none"
                   ELSE AIProviders[CHOOSE i \in DOMAIN AIProviders : ChoiceOf(i) = c]
    /\ mpc' = "confirm"
    /\ UNCHANGED <<exit_status, generator_provider, used, sessionRest>>

\* Confirm.ask("Return to main menu?"): EOF or interrupt is False
ConfirmReturn ==
    /\ mpc = "confirm"
    /\ \E a \in {"yes", "no", "eof"} :
          IF a = "yes"
          THEN /\ events' = Append(events, "confirm_yes")
               /\ mpc' = "menu"
               /\ UNCHANGED exit_status
          ELSE /\ events' = Append(events, "confirm_no")
               /\ exit_status' = "return"
               /\ mpc' = "done"
    /\ UNCHANGED <<selected_provider, generator_provider, used, sessionRest>>

NextSession ==
    \/ ParseArguments
    \/ LoadSessionConfiguration
    \/ ValidateSessionOpenAI
    \/ QuickCommit
    \/ MainMenu
    \/ RunWorkflow
    \/ DisplayAICredits
    \/ ConfirmReturn

SpecSession == InitSession /\ [][NextSession]_vars

(***************************************************************************)
(* The documentation generator: run_docs_generator and the stand-alone     *)
(* generate_docs.py.  A diff is a text; only its length and the position   *)
(* of its first non-whitespace character matter to the code.               *)
(***************************************************************************)
DeepseekLimit == 30000

DefaultLimit == 15000

\* lengths on both sides of each limit
Lengths ==
    {0, 1} \cup {DefaultLimit + d : d \in -MaxOver..MaxOver}
           \cup {DeepseekLimit + d : d \in -MaxOver..MaxOver}

\* what git prints as a diff: nothing, or a text that starts with
\* "diff --git"; and a lone newline
Texts == {NoText, Text(1, 0)} \cup {Text(n, 1) : n \in Lengths \ {0}}

\* not diff.strip()
Blank(t) == t.ink = 0

\* staged + "\n" + unstaged
Concat(a, b) ==
    Text(a.len + 1 + b.len,
         IF a.ink > 0 THEN a.ink
         ELSE IF b.ink > 0 THEN a.len + 1 + b.ink ELSE 0)

\* a is what b starts with
IsPrefixOf(a, b) ==
    /\ a.len <= b.len
    /\ a.ink = (IF b.ink <= a.len THEN b.ink ELSE 0)

\* limit = 30000 if provider == "deepseek" else 15000
DiffLimit(provider) == IF provider = "deepseek" THEN DeepseekLimit ELSE DefaultLimit

\* if len(diff) > limit: diff = diff[:limit]
TruncateAfter(t, limit) ==
    IF t.len > limit + 1
    THEN Text(limit + 1, IF t.ink <= limit + 1 THEN t.ink ELSE 0)
    ELSE t

Truncate(t, limit) ==
    IF t.len > limit
    THEN Text(limit, IF t.ink <= limit THEN t.ink ELSE 0)
    ELSE t

\* the keys of PROVIDERS
Providers == {"openai", "deepseek"}

DiffSources ==
    {"commit", "staged", "unstaged", "all", "current_commit", "specific_commit"}

Returned(success, message) ==
    [kind |-> "return", success |-> success, message |-> message]

Raised(exception) == [kind |-> "raise", success |-> FALSE, message |-> exception]

Exited(code) == [kind |-> "exit", success |-> code = 0, message |-> ""]

\* the calls of run_docs_generator and the runs of generate_docs.py
DocsJobs ==
    [program : {"run_docs_generator"},
     provider : Providers \cup {"anthropic"},
     diff_source : DiffSources \cup {"branch"},
     commit_id : {"", "abc1234"},
     api_key : BOOLEAN]
    \cup
    [program : {"generate_docs.py"}, provider : Providers,
     diff_source : {"commit"}, commit_id : {""}, api_key : BOOLEAN]

\* the runs of the reference workflows of commit_cli
CommitJobs ==
    [program : {"run_current_commit_workflow", "run_commit_id_workflow",
                "run_github_workflow", "run_gitlab_workflow"},
     provider : Providers,
     diff_source : {"commit"},
     commit_id : {"", "abc1234"},
     api_key : BOOLEAN]

Jobs == DocsJobs \cup CommitJobs

InitJobs ==
    /\ IdleWorkflow
    /\ IdleClassifier
    /\ IdleMapper
    /\ IdleMetrics
    /\ IdleExcept("job")
    /\ job \in Jobs
    /\ jpc = "get_diff"
    /\ jdiff = NoText
    /\ truncated = FALSE
    /\ asked = <<>>
    /\ sent = <<>>
    /\ reply = "none"
    /\ outcome = NoOutcome

jobRest ==
    <<workflowVars, classifierVars, mapperVars, metricsVars, mainVars,
      sessionVars, remoteVars, promptVars,
      job>>

\* subprocess.run(["git", ...], check=True): the helpers turn
\* CalledProcessError and FileNotFoundError into RuntimeError; any other
\* exception of subprocess.run passes through them
GitOutcomes == {"ok", "CalledProcessError", "FileNotFoundError", "OSError"}

\* run_docs_generator: the diff of the chosen source
DocsGetDiff ==
    /\ jpc = "get_diff"
    /\ job.program = "run_docs_generator"
    /\ IF job.diff_source \notin DiffSources
       THEN /\ outcome' = Returned(FALSE, "Invalid diff_source")
            /\ jpc' = "done"
            /\ UNCHANGED jdiff
       ELSE IF job.diff_source = "specific_commit" /\ job.commit_id = ""
       THEN /\ outcome' = Returned(FALSE, "No commit ID provided")
            /\ jpc' = "done"
            /\ UNCHANGED jdiff
       ELSE \E git \in GitOutcomes :
               CASE git = "ok" ->
                      /\ IF job.diff_source = "all"
                         THEN \E staged_diff \in Texts, unstaged_diff \in Texts :
                                 jdiff' = Concat(staged_diff, unstaged_diff)
                         ELSE jdiff' \in Texts
                      /\ jpc' = "generate"
                      /\ UNCHANGED outcome
                 [] git = "OSError" ->
                      /\ outcome' = Raised("OSError")
                      /\ jpc' = "done"
                      /\ UNCHANGED jdiff
                 [] OTHER ->                  \* except RuntimeError as e
                      /\ outcome' = Returned(FALSE, "RuntimeError")
                      /\ jpc' = "done"
                      /\ UNCHANGED jdiff
    /\ UNCHANGED <<truncated, asked, sent, reply, jobRest>>

\* what the provider can answer
Replies == {"error", "NO_UPDATES", "docs"}

\* run_docs_generator: the empty check, the truncation and
\* generate_docs(diff, provider)
DocsGenerate ==
    /\ jpc = "generate"
    /\ job.program = "run_docs_generator"
    /\ IF Blank(jdiff)
       THEN /\ outcome' = Returned(FALSE, "No changes found.")
            /\ jpc' = "done"
            /\ UNCHANGED <<truncated, asked, sent, reply>>
       ELSE LET limit == DiffLimit(job.provider)
                cut == Truncate(jdiff, limit)
            IN /\ truncated' = (jdiff.len > limit)
               /\ asked' = Append(asked, cut)
               /\ IF job.provider \notin Providers
                  THEN /\ outcome' = Raised("KeyError")   \* PROVIDERS[provider_key]
                       /\ jpc' = "done"
                       /\ UNCHANGED <<sent, reply>>
                  ELSE IF ~job.api_key
                  THEN /\ outcome' = Returned(FALSE, "ValueError")
                       /\ jpc' = "done"
                       /\ UNCHANGED <<sent, reply>>
                  ELSE /\ sent' = Append(sent, cut)
                       /\ reply' \in Replies
                       /\ CASE reply' = "error" ->
                                 /\ outcome' = Returned(FALSE, "RuntimeError")
                                 /\ jpc' = "done"
                            [] reply' = "NO_UPDATES" ->
                                 /\ outcome' = Returned(TRUE, "No documentation updates required.")
                                 /\ jpc' = "done"
                            [] OTHER ->
                                 /\ jpc' = "save"
                                 /\ UNCHANGED outcome
    /\ UNCHANGED <<jdiff, jobRest>>

\* run_docs_generator: os.makedirs, open, write
DocsSave ==
    /\ jpc = "save"
    /\ job.program = "run_docs_generator"
    /\ \E written \in BOOLEAN :
          outcome' = IF ~written THEN Raised("OSError")
                     ELSE IF truncated THEN Returned(TRUE, "Warning: Diff was truncated")
                     ELSE Returned(TRUE, "Documentation saved")
    /\ jpc' = "done"
    /\ UNCHANGED <<jdiff, truncated, asked, sent, reply, jobRest>>

\* generate_docs.py: get_git_diff ends the program when git fails
ScriptGetDiff ==
    /\ jpc = "get_diff"
    /\ job.program = "generate_docs.py"
    /\ \E git \in GitOutcomes :
          CASE git = "ok" ->
                 /\ jdiff' \in Texts
                 /\ jpc' = "generate"
                 /\ UNCHANGED outcome
            [] git = "OSError" ->
                 /\ outcome' = Raised("OSError")
                 /\ jpc' = "done"
                 /\ UNCHANGED jdiff
            [] OTHER ->
                 /\ outcome' = Exited(1)
                 /\ jpc' = "done"
                 /\ UNCHANGED jdiff
    /\ UNCHANGED <<truncated, asked, sent, reply, jobRest>>

\* generate_docs.py: the empty check, the truncation and generate_docs
ScriptGenerate ==
    /\ jpc = "generate"
    /\ job.program = "generate_docs.py"
    /\ IF Blank(jdiff)
       THEN /\ outcome' = Returned(FALSE, "No changes found in the last commit.")
            /\ jpc' = "done"
            /\ UNCHANGED <<truncated, asked, sent, reply>>
       ELSE LET limit == DiffLimit(job.provider)
                cut == Truncate(jdiff, limit)
            IN /\ truncated' = (jdiff.len > limit)
               /\ asked' = Append(asked, cut)
               /\ IF ~job.api_key
                  THEN /\ outcome' = Exited(1)
                       /\ jpc' = "done"
                       /\ UNCHANGED <<sent, reply>>
                  ELSE /\ sent' = Append(sent, cut)
                       /\ reply' \in Replies
                       /\ CASE reply' = "error" ->
                                 /\ outcome' = Exited(1)
                                 /\ jpc' = "done"
                            [] reply' = "NO_UPDATES" ->
                                 /\ outcome' = Exited(0)
                                 /\ jpc' = "done"
                            [] OTHER ->
                                 /\ jpc' = "save"
                                 /\ UNCHANGED outcome
    /\ UNCHANGED <<jdiff, jobRest>>

\* generate_docs.py: os.makedirs, open, write
ScriptSave ==
    /\ jpc = "save"
    /\ job.program = "generate_docs.py"
    /\ \E written \in BOOLEAN :
          outcome' = IF written THEN Exited(0) ELSE Raised("OSError")
    /\ jpc' = "done"
    /\ UNCHANGED <<jdiff, truncated, asked, sent, reply, jobRest>>

(***************************************************************************)
(* The workflows of commit_cli that generate a reference message for       *)
(* commits that exist already: the current commit, a commit by id, and     *)
(* commits selected from GitHub or GitLab.                                 *)
(***************************************************************************)
\* the payload the generator builds: the diff bounded to the provider's limit
GeneratorPayload(diff_content, provider) ==
    Truncate(diff_content, DiffLimit(provider))

\* "\n\n".join(all_patches), for one patch and for two
Join(patches) ==
    IF Len(patches) = 1 THEN patches[1]
    ELSE Concat(Text(patches[1].len + 1, patches[1].ink), patches[2])

\* run_current_commit_workflow, run_commit_id_workflow: git rev-parse and
\* git show; a failure or a timeout is shown and the workflow returns
LocalCommitFetch ==
    /\ jpc = "get_diff"
    /\ job.program \in {"run_current_commit_workflow", "run_commit_id_workflow"}
    /\ IF job.program = "run_commit_id_workflow" /\ job.commit_id = ""
       THEN /\ outcome' = Returned(FALSE, "No commit ID provided.")
            /\ jpc' = "done"
            /\ UNCHANGED jdiff
       ELSE \E git \in {"ok", "failed"} :
               IF git = "ok"
               THEN /\ jdiff' \in Texts
                    /\ jpc' = "generate"
                    /\ UNCHANGED outcome
               ELSE /\ outcome' = Returned(FALSE, "Failed to fetch commit")
                    /\ jpc' = "done"
                    /\ UNCHANGED jdiff
    /\ UNCHANGED <<truncated, asked, sent, reply, jobRest>>

\* run_github_workflow, run_gitlab_workflow: the selected commits' patches,
\* joined
RemoteCommitFetch ==
    /\ jpc = "get_diff"
    /\ job.program \in {"run_github_workflow", "run_gitlab_workflow"}
    /\ \/ /\ outcome' = Returned(FALSE, "client error or nothing selected")
          /\ jpc' = "done"
          /\ UNCHANGED jdiff
       \/ /\ \E patch \in Texts : jdiff' = Join(<<patch>>)
          /\ jpc' = "generate"
          /\ UNCHANGED outcome
       \/ /\ \E first \in {NoText, Text(1, 1)}, second \in Texts :
                jdiff' = Join(<<first, second>>)
          /\ jpc' = "generate"
          /\ UNCHANGED outcome
    /\ UNCHANGED <<truncated, asked, sent, reply, jobRest>>

\* generator = CommitGenerator(config);
\* commit = generator.generate_commit_message(diff_content, file_paths);
\* display_commit_preview
CommitGenerate ==
    /\ jpc = "generate"
    /\ job.program \in {"run_current_commit_workflow", "run_commit_id_workflow",
                        "run_github_workflow", "run_gitlab_workflow"}
    /\ jpc' = "done"
    /\ IF ~job.api_key
       THEN /\ outcome' = Returned(FALSE, "CommitGeneratorError")
            /\ UNCHANGED <<asked, sent, reply>>
       ELSE /\ asked' = Append(asked, jdiff)
            /\ sent' = Append(sent, GeneratorPayload(jdiff, job.provider))
            /\ reply' \in {"error", "message"}
            /\ outcome' = IF reply' = "error"
                           THEN Returned(FALSE, "Failed to generate commit message")
                           ELSE Returned(TRUE, "reference message")
    /\ UNCHANGED <<jdiff, truncated, jobRest>>

NextJobs ==
    \/ DocsGetDiff
    \/ DocsGenerate
    \/ DocsSave
    \/ ScriptGetDiff
    \/ ScriptGenerate
    \/ ScriptSave
    \/ LocalCommitFetch
    \/ RemoteCommitFetch
    \/ CommitGenerate

SpecJobs == InitJobs /\ [][NextJobs]_vars

(***************************************************************************)
(* Strings as sequences of one-character strings, with the str methods     *)
(* the prompts use.                                                        *)
(***************************************************************************)
LowerCase == <<"a", "b", "c", "d", "e", "f", "g", "h", "i", "j", "k", "l", "m",
               "n", "o", "p", "q", "r", "s", "t", "u", "v", "w", "x", "y", "z">>

UpperCase == <<"A", "B", "C", "D", "E", "F", "G", "H", "I", "J", "K", "L", "M",
               "N", "O", "P", "Q", "R", "S", "T", "U", "V", "W", "X", "Y", "Z">>

Digits == <<"0", "1", "2", "3", "4", "5", "6", "7", "8", "9">>

Whitespace == {" "}

IsLetter(c) ==
    \E i \in DOMAIN LowerCase : c = LowerCase[i] \/ c = UpperCase[i]

IsDigitChar(c) == \E i \in DOMAIN Digits : c = Digits[i]

\* str.lower()
LowerChar(c) ==
    IF \E i \in DOMAIN UpperCase : c = UpperCase[i]
    THEN LowerCase[CHOOSE i \in DOMAIN UpperCase : c = UpperCase[i]]
    ELSE c

Lower(str) == [i \in DOMAIN str |-> LowerChar(str[i])]

\* str.isdigit()
IsDigit(str) == str # <<>> /\ \A i \in DOMAIN str : IsDigitChar(str[i])

\* int(str) of a string of digits
RECURSIVE IntOf(_)
IntOf(str) ==
    IF str = <<>> THEN 0
    ELSE 10 * IntOf(SubSeq(str, 1, Len(str) - 1))
         + (CHOOSE i \in DOMAIN Digits : str[Len(str)] = Digits[i]) - 1

\* str.strip()
RECURSIVE Strip(_)
Strip(str) ==
    IF str = <<>> THEN <<>>
    ELSE IF str[1] \in Whitespace THEN Strip(Tail(str))
    ELSE IF str[Len(str)] \in Whitespace THEN Strip(SubSeq(str, 1, Len(str) - 1))
    ELSE str

\* str.split(sep): the pieces between the separators, empty ones included
RECURSIVE SplitOn(_, _)
SplitOn(str, sep) ==
    IF \A i \in DOMAIN str : str[i] # sep THEN <<str>>
    ELSE LET i == CHOOSE k \in DOMAIN str :
                      str[k] = sep /\ \A j \in 1..(k - 1) : str[j] # sep
         IN <<SubSeq(str, 1, i - 1)>> \o SplitOn(SubSeq(str, i + 1, Len(str)), sep)

\* the pieces that are not empty
RECURSIVE NonEmpty(_)
NonEmpty(pieces) ==
    IF pieces = <<>> THEN <<>>
    ELSE IF Head(pieces) = <<>> THEN NonEmpty(Tail(pieces))
    ELSE <<Head(pieces)>> \o NonEmpty(Tail(pieces))

\* str.split(): the words between runs of whitespace
Words(str) == NonEmpty(SplitOn(str, " "))

\* str.count(c)
CountChar(str, c) == Cardinality({i \in DOMAIN str : str[i] = c})

\* sub in str
Contains(str, sub) ==
    \E i \in 0..(Len(str) - Len(sub)) : SubSeq(str, i + 1, i + Len(sub)) = sub

\* the strings over an alphabet, up to a length
StringsUpTo(alphabet, n) == UNION {[1..k -> alphabet] : k \in 0..n}

(***************************************************************************)
(* select_github_repository and select_gitlab_repository: the same code    *)
(* over the two clients.                                                   *)
(***************************************************************************)
\* full_name of the i-th repository: "ab", "abb", "abbb", ...
RepoName(i) == <<"a">> \o [k \in 1..i |-> "b"]

Repositories(n) == [i \in 1..n |-> RepoName(i)]

\* what can be typed at the two prompts
RepoAlphabet == {"0", "1", "2", "b", "B", "x"}

RepoAnswers == StringsUpTo(RepoAlphabet, MaxTyped)

\* end of input or an interrupt at a prompt
EndOfInput == <<"EOF">>

SelectedValue(v) == [kind |-> "return", value |-> <<v>>]

NoneValue == [kind |-> "return", value |-> <<>>]

RaisedValue(e) == [kind |-> "raise", value |-> <<e>>]

\* [r for r in repos if choice.lower() in r.full_name.lower()]
RECURSIVE Matching(_, _)
Matching(repos, text) ==
    IF repos = <<>> THEN <<>>
    ELSE (IF Contains(Lower(Head(repos)), Lower(text))
          THEN <<Head(repos)>> ELSE <<>>) \o Matching(Tail(repos), text)

InitRepositories ==
    /\ IdleWorkflow
    /\ IdleClassifier
    /\ IdleMapper
    /\ IdleMetrics
    /\ IdleExcept("prompt")
    /\ prompt \in {"select_github_repository", "select_gitlab_repository"}
    /\ ppc = "list"
    /\ fetched \in {Repositories(n) : n \in 0..MaxRepos}
    /\ matches = <<>>
    /\ typed = <<>>
    /\ returned = NoResult

promptRest ==
    <<workflowVars, classifierVars, mapperVars, metricsVars, mainVars,
      sessionVars, remoteVars, jobVars,
      prompt>>

\* repos = client.list_repositories(); a client error and an empty list
\* return None
ListRepositories ==
    /\ ppc = "list"
    /\ \E error \in BOOLEAN :
          IF error \/ fetched = <<>>
          THEN /\ returned' = NoneValue
               /\ ppc' = "done"
          ELSE /\ ppc' = "ask"
               /\ UNCHANGED returned
    /\ UNCHANGED <<fetched, matches, typed, promptRest>>

\* choice = Prompt.ask("Enter number to select, or type to search")
AskRepository ==
    /\ ppc = "ask"
    /\ \E entered \in RepoAnswers \cup {EndOfInput} :
          /\ typed' = entered
          /\ IF entered = EndOfInput
             THEN /\ returned' = NoneValue
                  /\ ppc' = "done"
                  /\ UNCHANGED matches
             ELSE IF IsDigit(entered)
             THEN /\ returned' = LET idx == IntOf(entered) - 1
                               IN IF 0 <= idx /\ idx < Len(fetched)
                                  THEN SelectedValue(fetched[idx + 1])
                                  ELSE NoneValue
                  /\ ppc' = "done"
                  /\ UNCHANGED matches
             ELSE /\ matches' = Matching(fetched, entered)
                  /\ IF Len(matches') = 1
                     THEN /\ returned' = SelectedValue(matches'[1])
                          /\ ppc' = "done"
                     ELSE IF Len(matches') > 1
                     THEN /\ ppc' = "sub"
                          /\ UNCHANGED returned
                     ELSE /\ returned' = NoneValue
                          /\ ppc' = "done"
    /\ UNCHANGED <<fetched, promptRest>>

\* sub_choice = Prompt.ask("Select number", default="1");
\* idx = int(sub_choice) - 1
AskAmongMatches ==
    /\ ppc = "sub"
    /\ \E answer \in RepoAnswers \cup {EndOfInput} :
          LET sub_choice == IF answer = <<>> THEN <<"1">> ELSE answer
          IN /\ typed' = sub_choice
             /\ returned' =
                    IF sub_choice = EndOfInput THEN NoneValue
                    ELSE IF ~IsDigit(sub_choice) THEN RaisedValue("ValueError")
                    ELSE LET idx == IntOf(sub_choice) - 1
                         IN IF 0 <= idx /\ idx < Len(matches)
                            THEN SelectedValue(matches[idx + 1])
                            ELSE NoneValue
    /\ ppc' = "done"
    /\ UNCHANGED <<fetched, matches, promptRest>>

NextRepositories ==
    \/ ListRepositories
    \/ AskRepository
    \/ AskAmongMatches

SpecRepositories == InitRepositories /\ [][NextRepositories]_vars

(***************************************************************************)
(* select_commits and select_gitlab_commits: the same code over the two    *)
(* clients.                                                                *)
(***************************************************************************)
\* client.list_commits(..., limit=50)
FetchLimit == 50

\* the rows of the table, and commits[:30]
DisplayLimit == 30

CommitCounts == {0, 1, 3, DisplayLimit, DisplayLimit + 1, FetchLimit}

\* the fetched commits, in fetched order
Commits(n) == [i \in 1..n |-> i]

SelectionAlphabet == {"a", "l", "L", "1", "3", "-", " "}

SelectionAnswers == StringsUpTo(SelectionAlphabet, MaxSelection)

\* a part of the selection that converts: a number, or start-end
PartConverts(part) ==
    IF Contains(part, <<"-">>)
    THEN LET pieces == SplitOn(part, "-")
         IN Len(pieces) = 2 /\ IsDigit(pieces[1]) /\ IsDigit(pieces[2])
    ELSE IsDigit(part)

\* the commits one part selects
PartSelection(commits, part) ==
    IF Contains(part, <<"-">>)
    THEN LET pieces == SplitOn(part, "-")
             first == IntOf(pieces[1])
             last == IntOf(pieces[2])
             lo == IF first < 1 THEN 1 ELSE first
             hi == IF last > Len(commits) THEN Len(commits) ELSE last
         IN IF lo <= hi THEN SubSeq(commits, lo, hi) ELSE <<>>
    ELSE LET idx == IntOf(part) - 1
         IN IF 0 <= idx /\ idx < Len(commits) THEN <<commits[idx + 1]>> ELSE <<>>

RECURSIVE PartsSelection(_, _)
PartsSelection(commits, parts) ==
    IF parts = <<>> THEN <<>>
    ELSE PartSelection(commits, Head(parts)) \o PartsSelection(commits, Tail(parts))

\* if choice.lower() == "all": return commits[:30]
AllCommits(commits) ==
    SubSeq(commits, 1, IF Len(commits) < DisplayLimit THEN Len(commits)
                       ELSE DisplayLimit)

\* the selection typed as `choice`; a ValueError returns []
Selection(commits, entered) ==
    IF Lower(entered) = <<"a", "l", "l">> THEN AllCommits(commits)
    ELSE IF \A i \in DOMAIN Words(entered) : PartConverts(Words(entered)[i])
    THEN PartsSelection(commits, Words(entered))
    ELSE <<>>

InitCommits ==
    /\ IdleWorkflow
    /\ IdleClassifier
    /\ IdleMapper
    /\ IdleMetrics
    /\ IdleExcept("prompt")
    /\ prompt \in {"select_commits", "select_gitlab_commits"}
    /\ ppc = "list"
    /\ fetched \in {Commits(n) : n \in CommitCounts}
    /\ matches = <<>>
    /\ typed = <<>>
    /\ returned = NoResult

ReturnedList(list) == [kind |-> "return", value |-> list]

\* commits = client.list_commits(...); a client error and an empty list
\* return []
ListCommits ==
    /\ ppc = "list"
    /\ \E error \in BOOLEAN :
          IF error \/ fetched = <<>>
          THEN /\ returned' = ReturnedList(<<>>)
               /\ ppc' = "done"
          ELSE /\ ppc' = "ask"
               /\ UNCHANGED returned
    /\ UNCHANGED <<fetched, matches, typed, promptRest>>

\* choice = Prompt.ask("Enter selection", default="1") and its parsing
AskSelection ==
    /\ ppc = "ask"
    /\ \E answer \in SelectionAnswers \cup {EndOfInput} :
          LET entered == IF answer = <<>> THEN <<"1">> ELSE answer
          IN /\ typed' = entered
             /\ returned' = IF entered = EndOfInput THEN ReturnedList(<<>>)
                            ELSE ReturnedList(Selection(fetched, entered))
    /\ ppc' = "done"
    /\ UNCHANGED <<fetched, matches, promptRest>>

NextCommits ==
    \/ ListCommits
    \/ AskSelection

SpecCommits == InitCommits /\ [][NextCommits]_vars

(***************************************************************************)
(* The splitter on its own: splitter.analyze applied to changesets of up   *)
(* to MaxSplitFiles files, metrics and changes of one snapshot.            *)
(***************************************************************************)
InitSplitter ==
    /\ pc = "analyze"
    /\ config \in Configs
    /\ index \in SplitChangesets
    /\ index_changes = 0
    /\ change_source = "staged"
    /\ ref_diff = {}
    /\ staged = StagedChanges(index)
    /\ metrics = ChangeMetrics(index)
    /\ analyzed = FALSE
    /\ proposal = NoProposal
    /\ asked_split = FALSE
    /\ groups_to_process = <<>>
    /\ commit = GeneratedCommit(NoMessage)
    /\ preview = NoMessage
    /\ choice = "none"
    /\ feedback = ""
    /\ requests = 0
    /\ request = NoRequest
    /\ messages = 0
    /\ created = <<>>
    /\ report = "none"
    /\ rounds = 0
    /\ IdleClassifier
    /\ IdleMapper
    /\ IdleMetrics
    /\ IdleExcept("none")

SpecSplitter == InitSplitter /\ [][AnalyzeSplit]_vars

(***************************************************************************)
(* The classifier on its own: classify applied to the paths built from a   *)
(* few directory and file names.                                           *)
(***************************************************************************)
DirNames == {"src", "tests", "docs", ".github", "config", "lib"}

FileNames ==
    { <<<<"app">>, <<"py">>>>,               \* app.py
      <<<<"app", "test">>, <<"py">>>>,       \* app_test.py
      <<<<"app">>, <<"spec", "js">>>>,       \* app.spec.js
      <<<<"README">>, <<"md">>>>,            \* README.md
      <<<<"ci">>, <<"yml">>>>,               \* ci.yml
      <<<<"Dockerfile">>, <<>>>>,            \* Dockerfile
      <<<<"pyproject">>, <<"toml">>>>,       \* pyproject.toml
      <<<<>>, <<"flake8">>>>,                \* .flake8
      <<<<>>, <<"eslintrc", "json">>>>,      \* .eslintrc.json
      <<<<"settings">>, <<"ini">>>>,         \* settings.ini
      <<<<"LICENSE">>, <<>>>>,               \* LICENSE
      <<<<"notes">>, <<"txt">>>> }           \* notes.txt

DirSeqs == UNION {[1..n -> DirNames] : n \in 0..MaxDepth}

Paths == {Path(d, f[1], f[2]) : d \in DirSeqs, f \in FileNames}

InitClassifier ==
    /\ IdleWorkflow
    /\ IdleExcept("none")
    /\ IdleMapper
    /\ IdleMetrics
    /\ path \in Paths
    /\ category = "none"

Classify ==
    /\ category = "none"
    /\ category' = classify(path)
    /\ UNCHANGED <<path, workflowVars, mapperVars, metricsVars, mainVars,
                   sessionVars, remoteVars, jobVars, promptVars>>

SpecClassifier == InitClassifier /\ [][Classify]_vars

(***************************************************************************)
(* The type mapper on its own: infer_type applied to every category and    *)
(* every multiset of up to MaxStatuses statuses.                           *)
(***************************************************************************)
StatusBags ==
    {b \in [FileStatus -> 0..MaxStatuses] : Count(b) \in 1..MaxStatuses}

InitMapper ==
    /\ IdleWorkflow
    /\ IdleExcept("none")
    /\ IdleClassifier
    /\ IdleMetrics
    /\ group \in [category : ChangeCategory, statuses : StatusBags,
                  ci : BOOLEAN, fix : BOOLEAN, netNew : BOOLEAN]
    /\ type = "none"

InferType ==
    /\ type = "none"
    /\ type' = infer_type(group.category, group.statuses, group.ci, group.fix,
                          group.netNew)
    /\ UNCHANGED <<group, workflowVars, classifierVars, metricsVars, mainVars,
                   sessionVars, remoteVars, jobVars, promptVars>>

SpecMapper == InitMapper /\ [][InferType]_vars

(***************************************************************************)
(* The metrics calculator on its own: the score of the empty changeset and *)
(* of the one-file changesets, and of a changeset grown in one of its four *)
(* measures at a time.                                                     *)
(***************************************************************************)
Measures ==
    {m \in [files : 0..MaxMeasureFiles, lines : 0..MaxMeasureLines,
            dirs : 0..MaxMeasureFiles, cats : 0..MaxMeasureFiles] :
        IF m.files = 0 THEN m.lines = 0 /\ m.dirs = 0 /\ m.cats = 0
        ELSE /\ m.dirs \in 1..m.files
             /\ m.cats \in 1..Min(m.files, Cardinality(ChangeCategory))}

ScoreOf(m) == complexity_score(m.files, m.lines, m.dirs, m.cats)

InitMetrics ==
    /\ IdleWorkflow
    /\ IdleExcept("none")
    /\ IdleClassifier
    /\ IdleMapper
    /\ measure \in {m \in Measures : m.files <= 1}
    /\ score = ScoreOf(measure)

\* one more file in a directory and of a category already present
MoreFiles ==
    /\ measure' = [measure EXCEPT !.files = @ + 1]
    /\ measure' \in Measures
    /\ score' = ScoreOf(measure')
    /\ UNCHANGED <<workflowVars, classifierVars, mapperVars, mainVars,
                   sessionVars, remoteVars, jobVars,
                 promptVars>>

\* one more changed line in the same files
MoreLines ==
    /\ measure' = [measure EXCEPT !.lines = @ + 1]
    /\ measure' \in Measures
    /\ score' = ScoreOf(measure')
    /\ UNCHANGED <<workflowVars, classifierVars, mapperVars, mainVars,
                   sessionVars, remoteVars, jobVars,
                 promptVars>>

\* the same files spread over one more directory
MoreDirectories ==
    /\ measure' = [measure EXCEPT !.dirs = @ + 1]
    /\ measure' \in Measures
    /\ score' = ScoreOf(measure')
    /\ UNCHANGED <<workflowVars, classifierVars, mapperVars, mainVars,
                   sessionVars, remoteVars, jobVars,
                 promptVars>>

\* the same files spread over one more category
MoreCategories ==
    /\ measure' = [measure EXCEPT !.cats = @ + 1]
    /\ measure' \in Measures
    /\ score' = ScoreOf(measure')
    /\ UNCHANGED <<workflowVars, classifierVars, mapperVars, mainVars,
                   sessionVars, remoteVars, jobVars,
                 promptVars>>

NextMetrics == MoreFiles \/ MoreLines \/ MoreDirectories \/ MoreCategories

SpecMetrics == InitMetrics /\ [][NextMetrics]_vars

(***************************************************************************)
(* Properties.                                                             *)
(***************************************************************************)
RECURSIVE FileCount(_)
FileCount(groups) ==
    IF groups = <<>> THEN 0
    ELSE Cardinality(Head(groups).files) + FileCount(Tail(groups))

GroupCategories(groups) == [i \in DOMAIN groups |-> groups[i].category]

\* C1 (partition invariant): whenever analyze proposes a split, the file sets
\* of its groups are pairwise disjoint and cover exactly the files of the
\* changeset, none dropped and none twice, merged groups included.
C1_Partition ==
    (analyzed /\ proposal.should_split) =>
        LET gs == proposal.groups
        IN /\ \A i, j \in DOMAIN gs : i # j => gs[i].files \cap gs[j].files = {}
           /\ UNION {gs[i].files : i \in DOMAIN gs} = staged.files
           /\ FileCount(gs) = Cardinality(staged.files)

\* a split whose Source group has taken in a stray style file
C1_MergedSplit ==
    /\ analyzed
    /\ proposal.should_split
    /\ Len(proposal.groups) >= 2
    /\ \E i \in DOMAIN proposal.groups :
          /\ proposal.groups[i].category = "Source"
          /\ \E f \in proposal.groups[i].files : CategoryOf(f) = "Style"

\* C2 (split trigger): analyze answers should_split exactly when the file
\* count exceeds config.max_commit_size or the score exceeds
\* config.complexity_threshold; with the score within the threshold, a file
\* count equal to max_commit_size does not split and max_commit_size + 1 does.
C2_SplitTrigger ==
    analyzed =>
        /\ proposal.should_split <=>
              \/ metrics.total_files > config.max_commit_size
              \/ metrics.complexity_score > config.complexity_threshold
        /\ metrics.complexity_score <= config.complexity_threshold =>
              /\ metrics.total_files = config.max_commit_size =>
                    ~proposal.should_split
              /\ metrics.total_files = config.max_commit_size + 1 =>
                    proposal.should_split

\* one file above the size limit, score within the threshold: a split
C2_OneFileOver ==
    /\ analyzed
    /\ metrics.complexity_score <= config.complexity_threshold
    /\ metrics.total_files = config.max_commit_size + 1
    /\ proposal.should_split

\* C3 (commit of the final message): create_commit is called at most once in
\* a run, only as the step that follows the choice 'approve', with the
\* message of the last preview, which is the message under review; the
\* outcome reported is the commit or an error.
C3_CommitFinalMessage ==
    /\ [](Len(created) <= 1)
    /\ [][created' # created =>
             /\ pc = "chosen"
             /\ choice = "approve"
             /\ preview = commit.formatted_message
             /\ created' = Append(created, preview)
             /\ report' \in {"commit", "error"}]_vars

\* a manually edited message was committed
C3_EditedCommitted ==
    /\ pc = "done"
    /\ Len(created) = 1
    /\ created[1].by = "user"
    /\ report = "commit"

\* the state right after a 'regenerate' choice that called the collaborator
Regenerated == choice = "regenerate" /\ pc = "preview"

\* C4 as claimed: every 'regenerate' choice re-invokes the collaborator with
\* the message under review, the user's feedback and the original staged
\* diff and file list.
C4_RegenerateAlwaysWithPrevious ==
    Regenerated =>
        /\ request.previous = preview
        /\ request.feedback = feedback
        /\ request.diff_content = staged.diff_content
        /\ request.file_paths = staged.files

\* C4 (regeneration request): every regeneration request carries the staged
\* diff and file list of the run, the same in each; with a non-empty feedback
\* it is regenerate_with_feedback with the message under review and that
\* feedback, with an empty feedback it is a plain generate_commit_message
\* that carries neither.
C4_RegenerationRequest ==
    Regenerated =>
        /\ request.diff_content = staged.diff_content
        /\ request.file_paths = staged.files
        /\ request.groups = <<>>
        /\ IF feedback # ""
           THEN /\ request.fn = "regenerate_with_feedback"
                /\ request.previous = preview
                /\ request.feedback = feedback
           ELSE /\ request.fn = "generate_commit_message"
                /\ request.previous = NoMessage
                /\ request.feedback = ""

\* a second regeneration, with feedback, of a message that was regenerated,
\* after another process changed the index
C4_SecondRegeneration ==
    /\ Regenerated
    /\ rounds = 2
    /\ feedback # ""
    /\ request.previous.by = "ai"
    /\ request.previous.n = 2
    /\ index # staged.files

ApplicationClass(c) ==
    CASE c \in {"Configuration", "BuildOrCI"} -> 1
      [] c = "Source" -> 2
      [] c = "Test" -> 3
      [] c = "Style" -> 4
      [] c = "Documentation" -> 5
      [] OTHER -> 0

\* C6 (group ordering): in a split proposal no group of a later application
\* class precedes a group of an earlier one: Configuration/BuildOrCI, then
\* Source, then Test, then Style, then Documentation.
C6_GroupOrdering ==
    (analyzed /\ proposal.should_split) =>
        \A i, j \in DOMAIN proposal.groups :
            LET a == ApplicationClass(proposal.groups[i].category)
                b == ApplicationClass(proposal.groups[j].category)
            IN (i < j /\ a # 0 /\ b # 0) => a <= b

\* files under src/, tests/ and docs/ above the size limit: the groups are
\* Source, Test, Documentation
C6_SourceTestDocs ==
    /\ analyzed
    /\ proposal.should_split
    /\ metrics.total_files > config.max_commit_size
    /\ GroupCategories(proposal.groups) = <<"Source", "Test", "Documentation">>

\* C7 (complexity score): the score is never negative, it is zero exactly
\* for the empty changeset, and a changeset grown in one of file count, line
\* volume, directories or categories, the others fixed, scores no less.
C7_ScoreContract ==
    /\ [](score >= 0 /\ (score = 0 <=> measure.files = 0))
    /\ [][score' >= score]_vars

\* a changeset with lines, several directories and several categories
C7_GrownChangeset ==
    /\ measure.files = MaxMeasureFiles
    /\ measure.lines = MaxMeasureLines
    /\ measure.dirs > 1
    /\ measure.cats > 1
    /\ score > 0

\* C8 (classify): every path gets exactly one category, that of the first
\* rule of Test, Documentation, BuildOrCI, Style, Configuration, Source that
\* matches it, Other when none does.
C8_ClassifyPrecedence ==
    category # "none" =>
        /\ category \in ChangeCategory
        /\ category =
              IF IsTest(path) THEN "Test"
              ELSE IF IsDocumentation(path) THEN "Documentation"
              ELSE IF IsBuildOrCI(path) THEN "BuildOrCI"
              ELSE IF IsStyle(path) THEN "Style"
              ELSE IF IsConfiguration(path) THEN "Configuration"
              ELSE IF IsSource(path) THEN "Source"
              ELSE "Other"
        /\ (Extension(path) = "md" /\ "tests" \in Range(path.dirs)) =>
              category = "Test"
        /\ (Extension(path) = "yml" /\ TopDirectory(path) = ".github"
               /\ ~IsTest(path)) => category = "BuildOrCI"

\* a .md file under a tests directory classified Test
C8_MarkdownUnderTests ==
    /\ category = "Test"
    /\ Extension(path) = "md"
    /\ "tests" \in Range(path.dirs)

\* C9 (infer_type): the type is always one of the conventional commit types,
\* and follows the table: Test test, Documentation docs, Style style,
\* Configuration and Other chore whatever the statuses; Source all Added
\* feat, Source Modified-only without fix indication refactor, Source
\* Deleted-dominant chore.
C9_TypeTable ==
    type # "none" =>
        LET n == Count(group.statuses)
        IN /\ type \in ConventionalCommitType
           /\ group.category = "Test" => type = "test"
           /\ group.category = "Documentation" => type = "docs"
           /\ group.category = "Style" => type = "style"
           /\ group.category \in {"Configuration", "Other"} => type = "chore"
           /\ (group.category = "Source" /\ group.statuses["A"] = n) =>
                 type = "feat"
           /\ (group.category = "Source" /\ group.statuses["M"] = n /\ ~group.fix) =>
                 type = "refactor"
           /\ (group.category = "Source" /\ 2 * group.statuses["D"] > n) =>
                 type = "chore"

\* one Source file, Modified, no fix indication: refactor
C9_ModifiedSourceIsRefactor ==
    /\ type = "refactor"
    /\ group.category = "Source"
    /\ group.statuses = [s \in FileStatus |-> IF s = "M" THEN 1 ELSE 0]
    /\ ~group.fix

\* C10 (small-group merge): in a split proposal a Style (Configuration) group
\* below the minimum size is merged into the Source (BuildOrCI) group
\* whenever the changeset has Source (BuildOrCI) files, so that an undersized
\* Style or Configuration group stands alone only when it has none.
C10_SmallGroupMerge ==
    (analyzed /\ proposal.should_split) =>
        \A pair \in {<<"Style", "Source">>, <<"Configuration", "BuildOrCI">>} :
            LET gs == proposal.groups
                small == {f \in staged.files : CategoryOf(f) = pair[1]}
                host == {f \in staged.files : CategoryOf(f) = pair[2]}
            IN /\ (small # {} /\ Cardinality(small) < MinGroupSize /\ host # {}) =>
                     /\ \A i \in DOMAIN gs : gs[i].category # pair[1]
                     /\ \E i \in DOMAIN gs :
                           /\ gs[i].category = pair[2]
                           /\ small \subseteq gs[i].files
               /\ \A i \in DOMAIN gs :
                     (gs[i].category = pair[1]
                         /\ Cardinality(gs[i].files) < MinGroupSize) => host = {}

\* a stray configuration file merged into the BuildOrCI group, next to a
\* Style group of the minimum size that stays on its own
C10_MergedAndKept ==
    /\ analyzed
    /\ proposal.should_split
    /\ \E i \in DOMAIN proposal.groups :
          /\ proposal.groups[i].category = "BuildOrCI"
          /\ \E f \in proposal.groups[i].files : CategoryOf(f) = "Configuration"
    /\ \E i \in DOMAIN proposal.groups :
          /\ proposal.groups[i].category = "Style"
          /\ Cardinality(proposal.groups[i].files) = MinGroupSize

(***************************************************************************)
(* Error handling of the staged path.                                      *)
(***************************************************************************)
\* C11: the splitter answers an empty changeset with an error and no
\* proposal, and when validate_staged_changes reports no staged changes the
\* workflow ends there: the staged changes and the metrics are not read,
\* splitter.analyze is not invoked, no message is requested and no commit is
\* created.
C11_EmptyIsError ==
    /\ [](analyzed => staged.files # {})
    /\ []((pc = "raised" /\ ~analyzed) => (staged.files = {} /\ proposal = NoProposal))
    /\ [][(pc = "validate" /\ index = {}) =>
             /\ pc' = "done"
             /\ report' = "error"
             /\ UNCHANGED <<staged, metrics, analyzed, proposal, requests,
                            messages, created>>]_vars
    /\ []((pc = "done" /\ change_source = "staged" /\ ~analyzed) =>
             /\ staged = StagedChanges({})
             /\ metrics = ChangeMetrics({})
             /\ requests = 0
             /\ created = <<>>)

\* validation refused an empty index and the run is over
C11_NothingStaged ==
    /\ pc = "done"
    /\ change_source = "staged"
    /\ index = {}
    /\ report = "error"
    /\ ~analyzed
    /\ requests = 0

\* C12: a configuration whose max_commit_size or complexity_threshold is
\* negative is reported as a configuration error when it is loaded and the
\* program ends; splitter.analyze runs only with the thresholds of a
\* configuration that was accepted.
C12_ConfigRejected ==
    /\ []((pc = "analyze" \/ analyzed) => (config = env /\ ValidThresholds(env)))
    /\ [](~ValidThresholds(env) =>
             /\ pc \in {"load_config", "exit"}
             /\ pc = "exit" => report = "config_error")
    /\ [][(pc = "load_config" /\ ~ValidThresholds(env)) =>
             /\ pc' = "exit"
             /\ report' = "config_error"
             /\ UNCHANGED <<staged, metrics, analyzed, proposal>>]_vars

\* a negative max_commit_size was refused
C12_NegativeSizeRefused ==
    /\ pc = "exit"
    /\ env.max_commit_size < 0
    /\ env.complexity_threshold >= 0
    /\ report = "config_error"
    /\ ~analyzed

\* C13: a text-generation call that returns no message is reported in the
\* same step, as an error shown to the user or as an exception leaving the
\* workflow, and after the first call of a run every further call follows a
\* 'regenerate' choice the user made for it at the approval prompt.
C13_NoSilentRetry ==
    /\ [][requests' # requests =>
             /\ requests' = requests + 1
             /\ messages' = messages => (report' = "error" \/ pc' = "raised")
             /\ requests > 0 =>
                   /\ pc = "chosen"
                   /\ choice = "regenerate"
                   /\ pc' \in {"preview", "raised"}]_vars
    /\ [][(pc' = "chosen" /\ pc # "chosen") => pc = "preview"]_vars

\* two regenerations failed, each one asked for by the user
C13_FailedTwiceByChoice ==
    /\ pc = "preview"
    /\ choice = "regenerate"
    /\ requests = 3
    /\ messages = 1
    /\ report = "error"

C17_AlwaysReturnsTuple ==
    (job.program = "run_docs_generator" /\ jpc = "done") =>
        /\ outcome.kind = "return"
        /\ outcome.success => reply \in {"NO_UPDATES", "docs"}

\* C14 as claimed, for the documentation generator and the reference
\* workflows: a diff that is empty or whitespace only ends the run, it is
\* never handed to the generator.
C14_EmptyDiffStops ==
    \A i \in DOMAIN asked : ~Blank(asked[i])

\* C16 as claimed: the metrics and the staged changes handed to
\* splitter.analyze describe one snapshot of the index:
\* metrics.total_files = len(staged.files).
C16_SnapshotConsistent ==
    (pc = "analyze" \/ analyzed) => metrics.total_files = Cardinality(staged.files)

(***************************************************************************)
(* The interactive selections.                                             *)
(***************************************************************************)
\* C18 as claimed: select_github_repository and select_gitlab_repository
\* end, for every input, by returning one of the fetched repositories or
\* None; they raise nothing.
C18_SelectionOrNone ==
    ppc = "done" =>
        /\ returned.kind = "return"
        /\ returned.value # <<>> =>
              \E i \in DOMAIN fetched : fetched[i] = returned.value[1]

\* C19 as claimed: 'all', in any letter case, returns every fetched commit
\* in fetched order.
C19_AllSelectsFetched ==
    (ppc = "done" /\ Lower(typed) = <<"a", "l", "l">>) =>
        returned = [kind |-> "return", value |-> fetched]

(***************************************************************************)
(* The input history: is_meaningful_history_entry and save_input_history.  *)
(***************************************************************************)
UpperChar(c) ==
    IF \E i \in DOMAIN LowerCase : c = LowerCase[i]
    THEN UpperCase[CHOOSE i \in DOMAIN LowerCase : c = LowerCase[i]]
    ELSE c

Upper(str) == [i \in DOMAIN str |-> UpperChar(str[i])]

\* str.capitalize()
Capitalize(str) ==
    [i \in DOMAIN str |-> IF i = 1 THEN UpperChar(str[i]) ELSE LowerChar(str[i])]

menu_patterns ==
    { <<"a", "l", "l">>, <<"q">>, <<"y", "e", "s">>, <<"n", "o">>, <<"y">>, <<"n">>,
      <<"a", "p", "p", "r", "o", "v", "e">>, <<"e", "d", "i", "t">>,
      <<"r", "e", "g", "e", "n", "e", "r", "a", "t", "e">>,
      <<"c", "a", "n", "c", "e", "l">> }

\* all(part.isdigit() for part in str.split("-") if part)
AllPartsDigits(str) ==
    LET pieces == NonEmpty(SplitOn(str, "-"))
    IN \A i \in DOMAIN pieces : IsDigit(pieces[i])

\* the function without entry.lower(): menu words are matched as typed
is_meaningful_as_typed(entry) ==
    IF entry = <<>> \/ Strip(entry) = <<>> THEN FALSE
    ELSE LET stripped == Strip(entry)
             words == Words(stripped)
         IN IF Len(stripped) = 1 THEN FALSE
            ELSE IF IsDigit(stripped) THEN FALSE
            ELSE IF stripped \in menu_patterns THEN FALSE
            ELSE IF Contains(stripped, <<"-">>) /\ AllPartsDigits(stripped) THEN FALSE
            ELSE IF \A i \in DOMAIN words :
                       \/ IsDigit(words[i])
                       \/ CountChar(words[i], "-") = 1 /\ AllPartsDigits(words[i])
                 THEN FALSE
            ELSE TRUE

is_meaningful_history_entry(entry) ==
    IF entry = <<>> \/ Strip(entry) = <<>> THEN FALSE
    ELSE LET stripped == Strip(entry)
             words == Words(stripped)
         IN IF Len(stripped) = 1 THEN FALSE
            ELSE IF IsDigit(stripped) THEN FALSE
            ELSE IF Lower(stripped) \in menu_patterns THEN FALSE
            ELSE IF Contains(stripped, <<"-">>) /\ AllPartsDigits(stripped) THEN FALSE
            ELSE IF \A i \in DOMAIN words :
                       \/ IsDigit(words[i])
                       \/ CountChar(words[i], "-") = 1 /\ AllPartsDigits(words[i])
                 THEN FALSE
            ELSE TRUE

\* meaningful_entries: the items of the readline history that are kept
RECURSIVE MeaningfulEntries(_)
MeaningfulEntries(history) ==
    IF history = <<>> THEN <<>>
    ELSE IF Head(history) # <<>> /\ is_meaningful_history_entry(Head(history))
         THEN <<Head(history)>> \o MeaningfulEntries(Tail(history))
    ELSE MeaningfulEntries(Tail(history))

EntryAlphabet == {" ", "-", "1", "n", "o", "N", "!"}

\* the menu words as a user types them: lower case, upper case,
\* capitalised, and with spaces around
MenuEntries ==
    UNION {{w, Upper(w), Capitalize(w), <<" ">> \o Upper(w) \o <<" ">>} :
              w \in menu_patterns}

\* real input that contains a menu word or a selection
RealEntries ==
    { <<"a", "l", "l", "o", "w">>,
      <<"e", "d", "i", "t", " ", "1", "-", "5">>,
      <<"n", "o", " ", "1", " ", "2">>,
      <<"Y", "e", "s", "!">> }

HistoryEntries == StringsUpTo(EntryAlphabet, MaxEntry) \cup MenuEntries \cup RealEntries

InitHistory ==
    /\ IdleWorkflow
    /\ IdleClassifier
    /\ IdleMapper
    /\ IdleMetrics
    /\ IdleExcept("prompt")
    /\ prompt = "history"
    /\ ppc = "input"
    /\ fetched = <<>>
    /\ matches = <<>>
    /\ typed = <<>>
    /\ returned = NoResult

\* the user answers a prompt and readline adds the line to its history
TypeEntry ==
    /\ ppc = "input"
    /\ \E entry \in HistoryEntries :
          /\ typed' = entry
          /\ fetched' = <<entry>>
    /\ ppc' = "typed"
    /\ UNCHANGED <<matches, returned, promptRest>>

\* is_meaningful_history_entry(entry) called on the line
CheckEntry ==
    /\ ppc = "typed"
    /\ returned = NoResult
    /\ returned' = ReturnedList(<<is_meaningful_history_entry(typed)>>)
    /\ UNCHANGED <<ppc, fetched, matches, typed, promptRest>>

\* save_input_history at exit: the history is replaced by its meaningful
\* entries and written; an IOError, OSError or PermissionError is ignored,
\* before the filtering (makedirs) or after it (write_history_file)
SaveInputHistory ==
    /\ ppc = "typed"
    /\ \E failure \in {"none", "makedirs", "write_history_file"} :
          IF failure = "makedirs"
          THEN UNCHANGED <<fetched, matches>>
          ELSE /\ matches' = MeaningfulEntries(fetched)
               /\ fetched' = MeaningfulEntries(fetched)
    /\ ppc' = "done"
    /\ UNCHANGED <<typed, returned, promptRest>>

NextHistory ==
    \/ TypeEntry
    \/ CheckEntry
    \/ SaveInputHistory

SpecHistory == InitHistory /\ [][NextHistory]_vars

\* a number: one or more digits
IsNumberText(str) == IsDigit(str)

\* a hyphenated number range: digits, one hyphen, digits
IsRangeText(str) ==
    \E i \in DOMAIN str :
        /\ str[i] = "-"
        /\ IsDigit(SubSeq(str, 1, i - 1))
        /\ IsDigit(SubSeq(str, i + 1, Len(str)))

\* a space-separated list of numbers or ranges
IsSelectionList(str) ==
    /\ Words(str) # <<>>
    /\ \A i \in DOMAIN Words(str) :
          IsNumberText(Words(str)[i]) \/ IsRangeText(Words(str)[i])

\* the entries the claim calls menu selections
MenuSelection(entry) ==
    LET trimmed == Strip(entry)
    IN \/ trimmed = <<>>
       \/ Len(trimmed) = 1
       \/ IsNumberText(trimmed)
       \/ Lower(trimmed) \in menu_patterns
       \/ IsRangeText(trimmed)
       \/ IsSelectionList(trimmed)

\* the entries the claim calls real input
RealInput(entry) ==
    LET trimmed == Strip(entry)
    IN /\ Len(trimmed) >= 2
       /\ \E i \in DOMAIN trimmed : IsLetter(trimmed[i])
       /\ Lower(trimmed) \notin menu_patterns

\* C20: is_meaningful_history_entry returns False for an empty or
\* whitespace-only entry, a single character, an all-digit entry, a menu
\* word in any letter case, a hyphenated number range and a space-separated
\* list of numbers or ranges; it returns True for every entry of two or
\* more characters after trimming that contains a letter and is not a menu
\* word; save_input_history keeps no menu selection.
C20_FiltersMenuSelections ==
    /\ (prompt = "history" /\ returned # NoResult) =>
          /\ MenuSelection(typed) => returned = ReturnedList(<<FALSE>>)
          /\ RealInput(typed) => returned = ReturnedList(<<TRUE>>)
    /\ (prompt = "history" /\ ppc = "done" /\ MenuSelection(typed)) => matches = <<>>

\* a capitalised menu word with a space before it was checked and refused,
\* and the history was saved without it
C20_MenuWordRefused ==
    /\ prompt = "history"
    /\ ppc = "done"
    /\ typed = <<" ", "N", "o">>
    /\ returned = ReturnedList(<<FALSE>>)
    /\ fetched = <<>>

(***************************************************************************)
(* The session: main and the AI configuration workflow.                    *)
(***************************************************************************)
\* C21 as claimed: after the user picked an available provider in the AI
\* configuration workflow and returned to the main menu, the workflow run
\* next generates its message with the selected provider.
C21_SelectedProviderUsed ==
    (selected_provider # "none" /\ used # "none") => used = selected_provider

\* what main starts once the configuration is accepted
Started == {"quick", "menu", "local", "github", "gitlab", "ai_config"}

\* C22: when config.validate_openai() fails, main exits with status 1
\* before the main menu is shown and before run_quick_commit or any
\* workflow, the AI configuration included, starts; whatever started was
\* preceded by a successful validation; only --help/-h ends main without
\* loading or validating the configuration.
C22_OpenAIRequired ==
    /\ Happened(events, "openai_error") > 0 =>
          /\ mpc = "done"
          /\ exit_status = "exit 1"
          /\ \A e \in Started : Happened(events, e) = 0
    /\ (mpc \in Started \cup Workflows \/ \E e \in Started : Happened(events, e) > 0) =>
          /\ Len(events) >= 2
          /\ events[1] = "load_config"
          /\ events[2] = "validate_openai"
          /\ Happened(events, "openai_error") = 0
    /\ (mpc = "done" /\ Happened(events, "load_config") = 0) <=>
          (events = <<"help">> /\ exit_status = "return"
             /\ ArgLower(argv) \in {"--help", "-h"})

\* quick mode was asked for and the OpenAI configuration was refused
C22_QuickModeRefused ==
    /\ argv = "-Q"
    /\ events = <<"load_config", "validate_openai", "openai_error">>
    /\ exit_status = "exit 1"
    /\ mpc = "done"

\* the positions of an event in the log
Positions(log, e) == {i \in DOMAIN log : log[i] = e}

\* C26: main runs at most one repository workflow per invocation and ends
\* after it; the main menu is shown again only right after an AI
\* configuration workflow whose confirmation was answered yes; a declined or
\* interrupted confirmation ends the program without running any workflow.
C26_OneWorkflow ==
    /\ \A i \in DOMAIN events :
          events[i] \in Workflows => (i = Len(events) /\ mpc = "done")
    /\ \A i \in Positions(events, "menu") :
          \/ i = 3 /\ SubSeq(events, 1, 2) = <<"load_config", "validate_openai">>
          \/ i > 3 /\ SubSeq(events, i - 2, i - 1) = <<"ai_config", "confirm_yes">>
    /\ \A i \in Positions(events, "confirm_no") :
          /\ i = Len(events)
          /\ mpc = "done"
          /\ \A w \in Workflows \cup {"quick"} : Happened(events, w) = 0

\* the menu came back after the AI configuration and a workflow then ran
\* and ended main
C26_WorkflowAfterReturn ==
    /\ events = <<"load_config", "validate_openai", "menu", "ai_config",
                  "confirm_yes", "menu", "gitlab">>
    /\ mpc = "done"
    /\ exit_status = "return"

(***************************************************************************)
(* The approval loop of run_local_workflow.                                *)
(***************************************************************************)
\* C23 as claimed: the approval loop ends exactly when the user chooses
\* 'approve' or 'cancel'; 'edit' and 'regenerate' always lead back to a new
\* preview; after 'cancel' no commit has been created.
C23_EndsOnApproveOrCancel ==
    /\ (choice # "none" /\ pc \notin {"preview", "chosen"}) =>
          choice \in {"approve", "cancel"}
    /\ (choice = "cancel" /\ pc \notin {"preview", "chosen"}) => created = <<>>

\* C25: a regeneration that raises CommitGeneratorError leaves the message
\* under review exactly as it was, manual edits included; the next preview
\* shows that message; approving commits the message of the last preview.
C25_FailedRegenerationKeepsMessage ==
    [][/\ (pc = "chosen" /\ choice = "regenerate" /\ requests' = requests + 1
             /\ messages' = messages) =>
             (commit' = commit /\ pc' = "preview")
       /\ (pc = "preview" /\ pc' # "preview") =>
             (pc' = "chosen" /\ commit' = commit
                /\ preview' = commit.formatted_message)
       /\ (pc = "chosen" /\ choice = "approve" /\ pc' # "chosen") =>
             (created' = Append(created, preview) /\ preview = commit.formatted_message)
      ]_vars

\* the message was edited by hand, the regeneration asked next failed, and
\* the edited message was then previewed and committed
C25_EditedKeptAndCommitted ==
    /\ pc = "done"
    /\ created = <<UserText(1)>>
    /\ requests = 2
    /\ messages = 1
    /\ rounds = 2

(***************************************************************************)
(* run_github_workflow and run_gitlab_workflow, each as the function of    *)
(* what the platform, the user and the generator answer.                   *)
(***************************************************************************)
\* the commits of the selected branch: sha and message
RemoteShas == {1, 2}

RemoteCommit(sha) == [sha |-> sha, message |-> <<"m", "s", "g">> \o <<ChoiceOf(sha)>>]

\* client.get_multiple_commit_diffs: one diff per sha, in the order asked;
\* the two commits touch one file in common
DiffOf(sha) ==
    IF sha = 1
    THEN [files |-> <<[filename |-> "a.py"], [filename |-> "b.py"]>>,
          patch |-> <<"x">>, additions |-> 2, deletions |-> 0]
    ELSE [files |-> <<[filename |-> "b.py"]>>,
          patch |-> <<"y", "z">>, additions |-> 1, deletions |-> 1]

get_multiple_commit_diffs(shas) == [i \in DOMAIN shas |-> DiffOf(shas[i])]

\* the selections select_commits can return, repetitions included
Picked == UNION {[1..n -> RemoteShas] : n \in 0..MaxPicked}

Scripts ==
    [config_valid : BOOLEAN,
     client : {"ok", "auth_error", "client_error"},
     repo : {"selected", "none", "raised"},
     branch : {"selected", "none"},
     commits : {[i \in DOMAIN p |-> RemoteCommit(p[i])] : p \in Picked},
     diffs : {"ok", "client_error"},
     generator : {"ok", "error"},
     generation : {"ok", "error"}]

\* for diff in diffs: all_files.extend(f["filename"] for f in diff.files)
RECURSIVE AllFiles(_)
AllFiles(diffs) ==
    IF diffs = <<>> THEN <<>>
    ELSE [i \in DOMAIN Head(diffs).files |-> Head(diffs).files[i].filename]
         \o AllFiles(Tail(diffs))

\* for diff in diffs: all_patches.append(diff.patch)
AllPatches(diffs) == [i \in DOMAIN diffs |-> diffs[i].patch]

\* sep.join(pieces)
RECURSIVE JoinWith(_, _)
JoinWith(sep, pieces) ==
    IF pieces = <<>> THEN <<>>
    ELSE IF Len(pieces) = 1 THEN pieces[1]
    ELSE pieces[1] \o sep \o JoinWith(sep, Tail(pieces))

\* set(all_files)
SetOf(list) == {list[i] : i \in DOMAIN list}

\* commits[:3] in place of the first three
SliceAll(list) == list

\* commits[:3]
FirstThree(list) == SubSeq(list, 1, IF Len(list) < 3 THEN Len(list) ELSE 3)

\* the message the generator answers with
RemoteMessage == <<"f", "i", "x">>

Returns(steps) == [steps |-> steps, ended |-> "returned", requests |-> <<>>, preview |-> <<>>]

Raises(steps) == [steps |-> steps, ended |-> "raised", requests |-> <<>>, preview |-> <<>>]

run_github_workflow(s) ==
    LET diffs == get_multiple_commit_diffs([i \in DOMAIN s.commits |-> s.commits[i].sha])
        all_files == AllFiles(diffs)
        combined_diff == JoinWith(<<"\n", "\n">>, AllPatches(diffs))
        context == [existing_messages |->
                        [i \in DOMAIN FirstThree(s.commits) |-> FirstThree(s.commits)[i].message],
                    project_type |-> "github",
                    language |-> "python"]
        asks == [diff_content |-> combined_diff, file_paths |-> SetOf(all_files),
                 context |-> context]
    IN IF ~s.config_valid THEN Returns(<<"validate_github">>)
       ELSE IF s.client # "ok" THEN Returns(<<"validate_github", "GitHubClient">>)
       ELSE IF s.repo = "raised"
            THEN Raises(<<"validate_github", "GitHubClient", "select_github_repository">>)
       ELSE IF s.repo = "none"
            THEN Returns(<<"validate_github", "GitHubClient", "select_github_repository">>)
       ELSE IF s.branch = "none"
            THEN Returns(<<"validate_github", "GitHubClient", "select_github_repository",
                           "select_branch">>)
       ELSE IF s.commits = <<>>
            THEN Returns(<<"validate_github", "GitHubClient", "select_github_repository",
                           "select_branch", "select_commits">>)
       ELSE IF s.diffs # "ok"
            THEN Returns(<<"validate_github", "GitHubClient", "select_github_repository",
                           "select_branch", "select_commits", "get_multiple_commit_diffs">>)
       ELSE IF s.generator # "ok"
            THEN Returns(<<"validate_github", "GitHubClient", "select_github_repository",
                           "select_branch", "select_commits", "get_multiple_commit_diffs",
                           "CommitGenerator">>)
       ELSE IF s.generation # "ok"
            THEN [steps |-> <<"validate_github", "GitHubClient",
                              "select_github_repository", "select_branch",
                              "select_commits", "get_multiple_commit_diffs",
                              "CommitGenerator", "generate_commit_message">>,
                  ended |-> "returned", requests |-> <<asks>>, preview |-> <<>>]
       ELSE [steps |-> <<"validate_github", "GitHubClient", "select_github_repository",
                         "select_branch", "select_commits", "get_multiple_commit_diffs",
                         "CommitGenerator", "generate_commit_message",
                         "display_commit_preview">>,
             ended |-> "returned", requests |-> <<asks>>, preview |-> <<RemoteMessage>>]

run_gitlab_workflow(s) ==
    LET diffs == get_multiple_commit_diffs([i \in DOMAIN s.commits |-> s.commits[i].sha])
        all_files == AllFiles(diffs)
        combined_diff == JoinWith(<<"\n", "\n">>, AllPatches(diffs))
        context == [existing_messages |->
                        [i \in DOMAIN FirstThree(s.commits) |-> FirstThree(s.commits)[i].message],
                    project_type |-> "gitlab",
                    language |-> "python"]
        asks == [diff_content |-> combined_diff, file_paths |-> SetOf(all_files),
                 context |-> context]
    IN IF ~s.config_valid THEN Returns(<<"validate_gitlab">>)
       ELSE IF s.client # "ok" THEN Returns(<<"validate_gitlab", "GitLabClient">>)
       ELSE IF s.repo = "raised"
            THEN Raises(<<"validate_gitlab", "GitLabClient", "select_gitlab_repository">>)
       ELSE IF s.repo = "none"
            THEN Returns(<<"validate_gitlab", "GitLabClient", "select_gitlab_repository">>)
       ELSE IF s.branch = "none"
            THEN Returns(<<"validate_gitlab", "GitLabClient", "select_gitlab_repository",
                           "select_gitlab_branch">>)
       ELSE IF s.commits = <<>>
            THEN Returns(<<"validate_gitlab", "GitLabClient", "select_gitlab_repository",
                           "select_gitlab_branch", "select_gitlab_commits">>)
       ELSE IF s.diffs # "ok"
            THEN Returns(<<"validate_gitlab", "GitLabClient", "select_gitlab_repository",
                           "select_gitlab_branch", "select_gitlab_commits",
                           "get_multiple_commit_diffs">>)
       ELSE IF s.generator # "ok"
            THEN Returns(<<"validate_gitlab", "GitLabClient", "select_gitlab_repository",
                           "select_gitlab_branch", "select_gitlab_commits",
                           "get_multiple_commit_diffs", "CommitGenerator">>)
       ELSE IF s.generation # "ok"
            THEN [steps |-> <<"validate_gitlab", "GitLabClient",
                              "select_gitlab_repository", "select_gitlab_branch",
                              "select_gitlab_commits", "get_multiple_commit_diffs",
                              "CommitGenerator", "generate_commit_message">>,
                  ended |-> "returned", requests |-> <<asks>>, preview |-> <<>>]
       ELSE [steps |-> <<"validate_gitlab", "GitLabClient", "select_gitlab_repository",
                         "select_gitlab_branch", "select_gitlab_commits",
                         "get_multiple_commit_diffs", "CommitGenerator",
                         "generate_commit_message", "display_commit_preview">>,
             ended |-> "returned", requests |-> <<asks>>, preview |-> <<RemoteMessage>>]

InitRemote ==
    /\ IdleWorkflow
    /\ IdleClassifier
    /\ IdleMapper
    /\ IdleMetrics
    /\ IdleExcept("remote")
    /\ script \in Scripts
    /\ github = NotRun
    /\ gitlab = NotRun

remoteRest ==
    <<workflowVars, classifierVars, mapperVars, metricsVars, mainVars, sessionVars,
      jobVars, promptVars, script>>

RunGitHubWorkflow ==
    /\ script # NoScript
    /\ github = NotRun
    /\ github' = run_github_workflow(script)
    /\ UNCHANGED <<gitlab, remoteRest>>

RunGitLabWorkflow ==
    /\ script # NoScript
    /\ gitlab = NotRun
    /\ gitlab' = run_gitlab_workflow(script)
    /\ UNCHANGED <<github, remoteRest>>

NextRemote ==
    \/ RunGitHubWorkflow
    \/ RunGitLabWorkflow

SpecRemote == InitRemote /\ [][NextRemote]_vars

(***************************************************************************)
(* The hosting-platform workflows.                                         *)
(***************************************************************************)
\* the steps the claim lists, numbered in its order: 1 configuration
\* validation, 2 authentication, 3 repository selection, 4 branch selection,
\* 5 commit selection, 6 diff fetch, 7 message generation, 8 preview
PhaseOf(step) ==
    CASE step \in {"validate_github", "validate_gitlab"} -> 1
      [] step \in {"GitHubClient", "GitLabClient"} -> 2
      [] step \in {"select_github_repository", "select_gitlab_repository"} -> 3
      [] step \in {"select_branch", "select_gitlab_branch"} -> 4
      [] step \in {"select_commits", "select_gitlab_commits"} -> 5
      [] step = "get_multiple_commit_diffs" -> 6
      [] step \in {"CommitGenerator", "generate_commit_message"} -> 7
      [] step = "display_commit_preview" -> 8

Phases(steps) == [i \in DOMAIN steps |-> PhaseOf(steps[i])]

\* the phases come in the listed order, from the first, none skipped
InOrder(phases) ==
    /\ phases # <<>> => phases[1] = 1
    /\ \A i \in 2..Len(phases) : phases[i] \in {phases[i - 1], phases[i - 1] + 1}

\* every step before the generation succeeded
EarlierStepsSucceeded(s) ==
    /\ s.config_valid
    /\ s.client = "ok"
    /\ s.repo = "selected"
    /\ s.branch = "selected"
    /\ s.commits # <<>>
    /\ s.diffs = "ok"
    /\ s.generator = "ok"

\* the characters of the pieces together
RECURSIVE TotalLength(_)
TotalLength(pieces) ==
    IF pieces = <<>> THEN 0 ELSE Len(Head(pieces)) + TotalLength(Tail(pieces))

\* the request aggregates the selected commits: the distinct file names,
\* the patches joined by a blank line, the first three messages
Aggregates(asks, s) ==
    /\ asks.file_paths =
          UNION {{DiffOf(s.commits[i].sha).files[k].filename :
                     k \in DOMAIN DiffOf(s.commits[i].sha).files} : i \in DOMAIN s.commits}
    /\ NonEmpty(SplitOn(asks.diff_content, "\n")) =
          [i \in DOMAIN s.commits |-> DiffOf(s.commits[i].sha).patch]
    /\ Len(asks.diff_content) =
          TotalLength([i \in DOMAIN s.commits |-> DiffOf(s.commits[i].sha).patch])
          + 2 * (Len(s.commits) - 1)
    /\ Len(asks.context.existing_messages) = Min(3, Len(s.commits))
    /\ \A i \in DOMAIN asks.context.existing_messages :
          asks.context.existing_messages[i] = s.commits[i].message

\* C27: on the same answers run_github_workflow and run_gitlab_workflow
\* perform the same steps in the listed order and stop at the same step in
\* the same way; a message is asked for only after every earlier step
\* succeeded, from the same aggregation, and previewed only when generated.
C27_SameProcedure ==
    (github # NotRun /\ gitlab # NotRun) =>
        /\ Phases(github.steps) = Phases(gitlab.steps)
        /\ InOrder(Phases(github.steps))
        /\ github.ended = gitlab.ended
        /\ github.preview = gitlab.preview
        /\ Len(github.requests) = Len(gitlab.requests)
        /\ \A i \in DOMAIN github.requests :
              /\ github.requests[i].diff_content = gitlab.requests[i].diff_content
              /\ github.requests[i].file_paths = gitlab.requests[i].file_paths
              /\ github.requests[i].context.existing_messages =
                    gitlab.requests[i].context.existing_messages
              /\ EarlierStepsSucceeded(script)
              /\ Aggregates(github.requests[i], script)
        /\ github.preview # <<>> <=>
              (EarlierStepsSucceeded(script) /\ script.generation = "ok")

\* both workflows generated and previewed a message from four selected
\* commits, two of them selected twice
C27_FourCommitsBothPlatforms ==
    /\ [i \in DOMAIN script.commits |-> script.commits[i].sha] = <<1, 2, 2, 1>>
    /\ github.preview = <<RemoteMessage>>
    /\ gitlab.preview = <<RemoteMessage>>
    /\ Len(github.requests[1].context.existing_messages) = 3
    /\ github.requests[1].file_paths = {"a.py", "b.py"}

(***************************************************************************)
(* The local workflow and the hosting-platform workflows together: every   *)
(* workflow main can start from the menu.                                  *)
(***************************************************************************)
InitWorkflows == Init \/ InitRemote

NextWorkflows ==
    \/ Next
    \/ NextRemote

SpecWorkflows == InitWorkflows /\ [][NextWorkflows]_vars

\* C24: git_ops.create_commit is invoked only by 'approve' on the staged
\* single-commit path: never when the change source is last commit,
\* unstaged or all changes, never after an accepted split proposal, never
\* in the GitHub and GitLab workflows.
C24_ReferenceNeverCommits ==
    /\ [](created # <<>> =>
             /\ change_source = "staged"
             /\ groups_to_process = <<>>
             /\ script = NoScript)
    /\ [][created' # created =>
             /\ change_source = "staged"
             /\ groups_to_process = <<>>
             /\ pc = "chosen"
             /\ choice = "approve"
             /\ github = NotRun /\ gitlab = NotRun]_vars

\* a message was generated and previewed from all changes, and the workflow
\* ended with nothing committed
C24_ReferenceMessageOnly ==
    /\ change_source = "all"
    /\ pc = "done"
    /\ report = "reference"
    /\ messages = 1
    /\ preview # NoMessage
    /\ created = <<>>

====================================================================
